---- MODULE Spec2Model ----
(***************************************************************************)
(* MapComplete-MQTT: the update loop (src/src/index.ts), the statistics    *)
(* and theme-colour resolution (src/src/MapComplete.ts), the OSMCha fetch  *)
(* (src/src/OsmCha.ts) and the Home Assistant discovery / clean-up         *)
(* (HomeAssistant.ts).                                                     *)
(*                                                                         *)
(* Time is counted in units of ten minutes; a UTC day has DayLen units and *)
(* a month MonthLen days (both scaled down).  Strings that the code takes  *)
(* apart (theme ids, hosts, URLs) are sequences of tokens in which "/" and *)
(* "." are tokens of their own.  Colours are the integer value of the hex  *)
(* string.  process.env.TZ is "UTC" (src/src/index.ts:55).                 *)
(***************************************************************************)
EXTENDS Integers, Sequences, FiniteSets, TLC

(* ------------------------------ bounds -------------------------------- *)
DayLen == 2
MonthLen == 2
\* Spec: the clock, the changesets made, the page size, the invocations of
\* update() in all and in flight at once
MaxTime == 2
MaxId == 2
MaxPage == 2
MaxCycles == 3
MaxInFlight == 2
\* SpecCalendar: a clock that runs into the next month, one update() at a time
CalendarTime == 5
CalendarCycles == 2
CalendarIds == 1
MaxStart == 1
MaxOffset == 1
\* SpecHelpers: the arguments the helper functions are applied to
MaxKeys == 3
MaxCount == 3
MaxCounters == 3
MaxChangesets == 3
\* main() with either value of DRY_RUN: a day of three ten-minute units
MainDayLen == 3
MainTime == 3
MainCycles == 3
MainIds == 1

(* --------------------------- program constants ------------------------ *)
TenMinutes == 1
DefaultColor == 7390537
DefaultIcon == <<"https:", "/", "/", "raw.githubusercontent.com", "/", "pietervdvn", "/", "MapComplete", "/", "refs/heads/develop/assets/svg/add.svg">>
MasterBase == <<"https:", "/", "/", "raw.githubusercontent.com", "/", "pietervdvn", "/", "MapComplete", "/", "master">>
BranchBase == <<"https:", "/", "/", "raw.githubusercontent.com", "/", "pietervdvn", "/", "MapComplete", "/">>
HttpsPrefix == <<"https:", "/", "/">>
OsmBePrefix == <<"https:", "/", "/", "mapcomplete.osm.be", "/">>
OrgPrefix == <<"https:", "/", "/", "mapcomplete.org", "/">>
PreviewPrefix == <<"https:", "/", "/", "pietervdvn.github.io", "/", "mc", "/">>

\* JavaScript undefined (a colour read past the end of colors) and null.
Undefined == -1
Null == -2
\* A value that is no string: a property an object literal inherits from
\* Object.prototype (a function, or Object.prototype itself)
Inherited == -3
NoBase == <<"undefined">>

themeColors ==
  [ default |-> 7390537, advertising |-> 16776819, aed |-> 34901,
    benches |-> 9005127, cycle_infra |-> 16242472, cyclofix |-> 14841917,
    drinking_water |-> 6733555, grb |-> 16770581, maxspeed |-> 14947336,
    natuurpunt |-> 9681679, onwheels |-> 2280032, personal |-> 3659337,
    postboxes |-> 16736834, toerisme_vlaanderen |-> 229379, trees |-> 32768 ]

(* ------------------------------ the world ----------------------------- *)
\* An optional metadata field of a changeset: absent, or a string (its
\* characters).
Absent == [has |-> FALSE, text |-> <<>>]
Field(text) == [has |-> TRUE, text |-> text]

\* What a changeset made with the editor can carry: theme, host, user, and
\* the counters answer, add-image and create of its metadata.
Records ==
  << [theme |-> <<"cyclofix">>, host |-> OrgPrefix \o <<"cyclofix.html">>,
      user |-> "user1", uid |-> "1",
      answer |-> Field(<<"2">>), addImage |-> Absent, create |-> Absent],
     [theme |-> <<"etymology">>, host |-> OsmBePrefix \o <<"etymology.html">>,
      user |-> "user2", uid |-> "2",
      answer |-> Field(<<"1">>), addImage |-> Field(<<"2">>), create |-> Absent],
     [theme |-> <<"mytheme">>, host |-> <<"http:", "/", "/", "127.0.0.1:1234", "/">>,
      user |-> "user2", uid |-> "2",
      answer |-> Absent, addImage |-> Field(<<"1">>), create |-> Field(<<"1">>)],
     [theme |-> <<"constructor">>, host |-> <<"http:", "/", "/", "127.0.0.1:1234", "/">>,
      user |-> "user1", uid |-> "1",
      answer |-> Field(<<"1">>), addImage |-> Absent, create |-> Absent] >>

\* The theme definitions the theme host serves (icon and title fields).
ThemeDef(theme) ==
  IF theme = <<"cyclofix">>
  THEN [icon |-> <<".", "/", "assets/themes/cyclofix/logo.svg">>,
        title |-> [isObject |-> TRUE, entries |-> << <<"nl", <<"Cyclofix NL">> >>, <<"en", <<"Cyclofix">> >> >>]]
  ELSE [icon |-> <<".", "/", "assets/themes/etymology/logo.svg">>,
        title |-> [isObject |-> TRUE, entries |-> << <<"nl", <<"Etymologie">> >> >>]]

\* What the image download and getAverageColor can come to: a sampled colour
\* (hex value and isDark), or a failure (ok = FALSE).
IconSamples ==
  { [ok |-> TRUE, hex |-> 14737632, isDark |-> FALSE],
    [ok |-> TRUE, hex |-> 1052688, isDark |-> TRUE],
    [ok |-> FALSE, hex |-> 0, isDark |-> FALSE] }

(* ------------------------------ state --------------------------------- *)
VARIABLES
  now,                    \* the wall clock (new Date())
  upstream,               \* the changesets OSMCha knows, by id
  lastUpdateTime,         \* index.ts:45
  mapCompleteChangesets,  \* index.ts:46
  mapCompleteThemes,      \* index.ts:47, the theme cache
  inv,                    \* the invocations of update() in flight
  mainPc,                 \* where main() is
  started,                \* number of update() invocations so far
  ingested,               \* ids handed to the ingestion loop since the array was created
  fetched,                \* the themes a resolution has gone to the network for
  step,                   \* what the step just taken did, if it was an ingestion
  helper,                 \* a call of a helper function: its argument and its result
  lim,                    \* the bounds of the run: [time, ids, cycles, slots, recs, day, history]
  dry_run,                \* index.ts:17, DRY_RUN === "True"
  client,                 \* main's client: "none", "mqtt" (connectAsync) or "fake" (FakeClient)
  fetchedAt               \* history: when the latest getChangesets request of the day that
                          \* succeeded was issued (kept when lim.history)

vars == <<now, upstream, lastUpdateTime, mapCompleteChangesets, mapCompleteThemes,
          inv, mainPc, started, ingested, fetched, step, helper, lim, dry_run, client,
          fetchedAt>>

(* ------------------------------ calendar ------------------------------ *)
\* A day has lim.day ten-minute units.
Day(t) == t \div lim.day
\* Date.prototype.getDate(): the day of the month.
GetDate(t) == (Day(t) % MonthLen) + 1
\* new Date(t).setHours(0, 0, 0, 0)
SetHours0(t) == Day(t) * lim.day

(* ------------------------------ strings ------------------------------- *)
StartsWith(s, p) == Len(s) >= Len(p) /\ SubSeq(s, 1, Len(p)) = p

\* s.slice(n) on tokens
Slice(s, n) == SubSeq(s, n + 1, Len(s))

RECURSIVE Split(_)
\* s.split("/"): the segments between the "/" tokens
Split(s) ==
  IF \A k \in 1..Len(s) : s[k] # "/" THEN <<s>>
  ELSE LET p == CHOOSE k \in 1..Len(s) : s[k] = "/" /\ \A m \in 1..(k - 1) : s[m] # "/"
       IN <<SubSeq(s, 1, p - 1)>> \o Split(SubSeq(s, p + 1, Len(s)))

RECURSIVE Join(_)
\* parts.join("/")
Join(parts) ==
  IF Len(parts) = 0 THEN <<>>
  ELSE IF Len(parts) = 1 THEN parts[1]
  ELSE parts[1] \o <<"/">> \o Join(Tail(parts))

RECURSIVE JoinSep(_, _)
\* parts.join(sep) for a separator that is one token
JoinSep(parts, sep) ==
  IF Len(parts) = 0 THEN <<>>
  ELSE IF Len(parts) = 1 THEN parts[1]
  ELSE parts[1] \o <<sep>> \o JoinSep(Tail(parts), sep)

\* s.replace(a, b) with a string pattern: the first occurrence only
ReplaceFirst(s, a, b) ==
  IF \A k \in 1..Len(s) : s[k] # a THEN s
  ELSE LET p == CHOOSE k \in 1..Len(s) : s[k] = a /\ \A m \in 1..(k - 1) : s[m] # a
       IN [s EXCEPT ![p] = b]

(* ------------------------------ numbers ------------------------------- *)
\* A JavaScript number: an integer, or NaN.
Num(n) == [nan |-> FALSE, n |-> n]
NaN == [nan |-> TRUE, n |-> 0]
\* a + b
Add(a, b) == IF a.nan \/ b.nan THEN NaN ELSE Num(a.n + b.n)

DecimalDigits == <<"0", "1", "2", "3", "4", "5", "6", "7", "8", "9">>
IsDigit(c) == \E d \in 1..Len(DecimalDigits) : DecimalDigits[d] = c
DigitValue(c) == (CHOOSE d \in 1..Len(DecimalDigits) : DecimalDigits[d] = c) - 1

RECURSIVE LeadingDigits(_)
\* the longest prefix of s that consists of digits
LeadingDigits(s) ==
  IF s = <<>> \/ ~IsDigit(Head(s)) THEN <<>>
  ELSE <<Head(s)>> \o LeadingDigits(Tail(s))

RECURSIVE DigitsValue(_)
DigitsValue(ds) ==
  IF ds = <<>> THEN 0
  ELSE DigitsValue(SubSeq(ds, 1, Len(ds) - 1)) * Len(DecimalDigits) + DigitValue(ds[Len(ds)])

RECURSIVE TrimStart(_)
TrimStart(s) == IF s # <<>> /\ Head(s) = " " THEN TrimStart(Tail(s)) ELSE s

\* parseInt(s): leading white space is skipped, a sign is taken, then the
\* digits up to the first character that is none; NaN when there is no digit.
parseInt(s) ==
  LET t == TrimStart(s)
      signed == t # <<>> /\ Head(t) \in {"-", "+"}
      ds == LeadingDigits(IF signed THEN Tail(t) ELSE t)
  IN IF ds = <<>> THEN NaN
     ELSE IF signed /\ Head(t) = "-" THEN Num(0 - DigitsValue(ds))
     ELSE Num(DigitsValue(ds))

(* ------------------------------ Helpers ------------------------------- *)
\* hexToRgb: hex.replace throws a TypeError when hex is undefined or null,
\* or a value without a method replace.
hexToRgb(hex) ==
  IF hex \in {Undefined, Null, Inherited}
  THEN [threw |-> TRUE, rgb |-> <<>>]
  ELSE [threw |-> FALSE,
        rgb |-> <<(hex \div 65536) % 256, (hex \div 256) % 256, hex % 256>>]

\* findTop that gives the first of the keys with the highest value only
findTop_First(item) ==
  LET highest == CHOOSE h \in {item[k][2] : k \in 1..Len(item)} :
                   \A k \in 1..Len(item) : item[k][2] <= h
  IN IF item = <<>> THEN <<>>
     ELSE (SelectSeq(item, LAMBDA e : e[2] = highest))[1][1]

\* findTop (item: the entries <<key, count>> of the object in the order in
\* which Object.keys and Object.values give them; a key is a token sequence)
findTop(item) ==
  LET highest == CHOOSE h \in {item[k][2] : k \in 1..Len(item)} :
                   \A k \in 1..Len(item) : item[k][2] <= h
      top == SelectSeq(item, LAMBDA e : e[2] = highest)
      keys == [k \in 1..Len(top) |-> top[k][1]]
  IN IF item = <<>> THEN <<>>
     ELSE IF Len(keys) = 1 THEN keys[1] ELSE JoinSep(keys, ", ")

\* cleanThemeName: name.replace("/", "_")
cleanThemeName(name) == ReplaceFirst(name, "/", "_")

(* ------------------------------ MapComplete --------------------------- *)
\* this.mapCompleteThemes.find((t) => t.id === theme): index, 0 when absent
FindTheme(themes, id) ==
  IF \E k \in 1..Len(themes) : themes[k].id = id
  THEN CHOOSE k \in 1..Len(themes) : themes[k].id = id /\ \A m \in 1..(k - 1) : themes[m].id # id
  ELSE 0

determineTitle(title) ==
  IF title.isObject
  THEN IF \E k \in 1..Len(title.entries) : title.entries[k][1] = "en"
       THEN title.entries[CHOOSE k \in 1..Len(title.entries) : title.entries[k][1] = "en"][2]
       ELSE title.entries[1][2]
  ELSE title.text

\* getThemeFile up to its fetch: the URL to download, or the default theme
\* object when the host is not recognised.
getThemeFile(theme, host) ==
  IF StartsWith(theme, HttpsPrefix)
  THEN [fetch |-> TRUE, baseUrl |-> theme, url |-> theme]
  ELSE IF StartsWith(host, OsmBePrefix) \/ StartsWith(host, OrgPrefix)
  THEN [fetch |-> TRUE, baseUrl |-> MasterBase,
        url |-> MasterBase \o <<"/", "assets", "/", "themes", "/">> \o theme \o <<"/">> \o theme \o <<".", "json">>]
  ELSE IF StartsWith(host, PreviewPrefix)
  THEN LET parts == Split(host)
           branch == Join(SubSeq(parts, 5, Len(parts) - 1))
       IN [fetch |-> TRUE, baseUrl |-> BranchBase \o branch,
           url |-> BranchBase \o branch \o <<"/", "assets", "/", "themes", "/">> \o theme \o <<"/">> \o theme \o <<".", "json">>]
  ELSE [fetch |-> FALSE, baseUrl |-> NoBase, url |-> <<>>]

\* The default theme object of getThemeFile's last branch.
DefaultTheme(theme) ==
  [icon |-> DefaultIcon, title |-> [isObject |-> FALSE, text |-> theme]]

\* getThemeDetails: the image URL (relative icons are put under baseUrl)
ImageUrl(icon, baseUrl) ==
  IF StartsWith(icon, <<".">>) THEN baseUrl \o <<"/">> \o Slice(icon, 2) ELSE icon

\* The names an object literal inherits from Object.prototype; the value of
\* each is a function or an object
ObjectPrototypeNames ==
  { "constructor", "__proto__", "hasOwnProperty", "isPrototypeOf", "propertyIsEnumerable",
    "toLocaleString", "toString", "valueOf", "__defineGetter__", "__defineSetter__",
    "__lookupGetter__", "__lookupSetter__" }

\* this.themeColors[theme]: the property of the table, own or inherited
ThemeColorOf(theme) ==
  IF Len(theme) = 1 /\ theme[1] \in DOMAIN themeColors THEN themeColors[theme[1]]
  ELSE IF Len(theme) = 1 /\ theme[1] \in ObjectPrototypeNames THEN Inherited
  ELSE Undefined

\* if (this.themeColors[theme]): the colours of the table, functions and
\* objects are truthy
HasThemeColor(theme) == ThemeColorOf(theme) # Undefined


\* getThemeDetails after the theme object is known: either it returns at
\* once (static colour) or it goes on to download the image.
AfterThemeFile(theme, themeObj, baseUrl) ==
  LET image == ImageUrl(themeObj.icon, baseUrl)
      name == determineTitle(themeObj.title)
  IN IF HasThemeColor(theme)
     THEN [fetchImage |-> FALSE, color |-> ThemeColorOf(theme), icon |-> image, name |-> name]
     ELSE [fetchImage |-> TRUE, color |-> Undefined, icon |-> image, name |-> name]

\* getThemeDetails, the colour after the image download (sample is a member
\* of IconSamples; the catch block takes the default)
ImageColor(sample) ==
  IF ~sample.ok THEN themeColors["default"]
  ELSE IF sample.isDark THEN themeColors["default"]
  ELSE sample.hex

\* PushTheme without the look-up of the theme
PushTheme_NoFind(themes, id, d) ==
  Append(themes, [id |-> id, title |-> d.name, icon |-> d.icon,
                  published |-> FALSE, color |-> d.color])

\* getStatistics: colors.push and the push to mapCompleteThemes
PushTheme(themes, id, d) ==
  IF FindTheme(themes, id) = 0
  THEN Append(themes, [id |-> id, title |-> d.name, icon |-> d.icon,
                       published |-> FALSE, color |-> d.color])
  ELSE themes

RECURSIVE ColorLoop(_, _, _, _, _)
\* getStatistics, the loop over the changesets from index idx (0-based) on,
\* run until it has to wait for the network or is through.  resolved lists,
\* for each colour pushed, the theme it was resolved for.
ColorLoop(changesets, idx, colors, resolved, themes) ==
  IF idx >= Len(changesets)
  THEN [at |-> "done", idx |-> idx, colors |-> colors, resolved |-> resolved, themes |-> themes]
  ELSE LET c == changesets[idx + 1]
           hit == FindTheme(themes, c.theme)
           file == getThemeFile(c.theme, c.host)
           d == AfterThemeFile(c.theme, DefaultTheme(c.theme), file.baseUrl)
       IN IF hit # 0
          THEN ColorLoop(changesets, idx + 1, Append(colors, themes[hit].color),
                         Append(resolved, c.theme), themes)
          ELSE IF file.fetch
          THEN [at |-> "themeFile", idx |-> idx, colors |-> colors, resolved |-> resolved,
                themes |-> themes, cur |-> c, baseUrl |-> file.baseUrl, short |-> FALSE]
          ELSE IF d.fetchImage
          THEN [at |-> "icon", idx |-> idx, colors |-> colors, resolved |-> resolved,
                themes |-> themes, cur |-> c, icon |-> d.icon, name |-> d.name, short |-> TRUE]
          ELSE ColorLoop(changesets, idx + 1, Append(colors, d.color),
                         Append(resolved, c.theme), PushTheme(themes, c.theme, d))

\* Array.prototype.indexOf on the changeset objects (ids identify them)
IndexOf(changesets, c) ==
  CHOOSE k \in 1..Len(changesets) :
    changesets[k].id = c.id /\ \A m \in 1..(k - 1) : changesets[m].id # c.id

\* colors[k] for a 0-based k: undefined past the end
ColorAt(colors, k) == IF k + 1 <= Len(colors) /\ k >= 0 THEN colors[k + 1] ELSE Undefined

\* A property name that is an array index: a canonical numeric string
IsArrayIndex(key) ==
  /\ key # <<>>
  /\ \A k \in 1..Len(key) : IsDigit(key[k])
  /\ Len(key) > 1 => key[1] # "0"

RECURSIVE SortByIndex(_)
\* entries with array-index keys, in ascending numeric order of the keys
SortByIndex(s) ==
  IF Len(s) <= 1 THEN s
  ELSE LET front == SortByIndex(SubSeq(s, 1, Len(s) - 1))
           x == s[Len(s)]
           p == Cardinality({m \in 1..Len(front) : DigitsValue(front[m][1]) <= DigitsValue(x[1])})
       IN SubSeq(front, 1, p) \o <<x>> \o SubSeq(front, p + 1, Len(front))

\* The order in which Object.entries, Object.keys and JSON.stringify go
\* through the properties of an object whose properties were created in the
\* order of entries: array indices first, in ascending order, then the
\* other names in the order of creation.
OwnPropertyOrder(entries) ==
  SortByIndex(SelectSeq(entries, LAMBDA e : IsArrayIndex(e[1])))
    \o SelectSeq(entries, LAMBDA e : ~IsArrayIndex(e[1]))

\* acc.__proto__ of an object literal is Object.prototype
ProtoKey == <<"__proto__">>

RECURSIVE CountKeys(_, _)
\* changesets.reduce(...) on {}: key -> count, the properties in the order
\* in which they were created.  acc["__proto__"] is not undefined, and
\* acc["__proto__"]++ assigns a number to __proto__, which is ignored.  (The
\* keys are taken to be none of the other names of Object.prototype.)
CountKeys(keys, acc) ==
  IF keys = <<>> THEN acc
  ELSE LET k == Head(keys)
       IN IF k = ProtoKey THEN CountKeys(Tail(keys), acc)
          ELSE IF \E m \in 1..Len(acc) : acc[m][1] = k
          THEN CountKeys(Tail(keys),
                 [m \in 1..Len(acc) |-> IF acc[m][1] = k THEN <<k, acc[m][2] + 1>> ELSE acc[m]])
          ELSE CountKeys(Tail(keys), Append(acc, <<k, 1>>))

RECURSIVE SortByCountDesc(_)
\* entries.sort(([, a], [, b]) => b - a): stable, by count descending
SortByCountDesc(s) ==
  IF Len(s) <= 1 THEN s
  ELSE LET front == SortByCountDesc(SubSeq(s, 1, Len(s) - 1))
           x == s[Len(s)]
           p == Cardinality({m \in 1..Len(front) : front[m][2] >= x[2]})
       IN SubSeq(front, 1, p) \o <<x>> \o SubSeq(front, p + 1, Len(front))

\* getStatistics, lines 199-209 and 215-227: the counts of the keys, as the
\* object that Object.fromEntries makes of the sorted entries (its
\* properties in the order in which Object.keys lists them)
SortedCounts(keys) ==
  OwnPropertyOrder(SortByCountDesc(OwnPropertyOrder(CountKeys(keys, <<>>))))

RECURSIVE SumField_NoSkip(_)
\* SumField without the test for an absent field (parseInt(undefined) is NaN)
SumField_NoSkip(values) ==
  IF values = <<>> THEN Num(0)
  ELSE Add(SumField_NoSkip(SubSeq(values, 1, Len(values) - 1)),
           IF values[Len(values)].has THEN parseInt(values[Len(values)].text) ELSE NaN)

RECURSIVE SumField(_)
\* getStatistics, lines 256-292: changesets.reduce over one metadata field
\* (values: the field of each changeset, in order), starting from 0
SumField(values) ==
  IF values = <<>> THEN Num(0)
  ELSE LET acc == SumField(SubSeq(values, 1, Len(values) - 1))
           cur == values[Len(values)]
       IN IF ~cur.has THEN acc ELSE Add(acc, parseInt(cur.text))

\* LastFields that leaves the colour of the last changeset out
LastFields_NoColor(changesets, colors) ==
  LET n == Len(changesets)
  IN IF n > 0
     THEN [lastId |-> changesets[n].id, lastUser |-> <<changesets[n].user>>,
           lastTheme |-> <<changesets[n].theme>>, lastColor |-> Null,
           lastColorRgb |-> [threw |-> FALSE, rgb |-> <<>>]]
     ELSE [lastId |-> Null, lastUser |-> <<>>, lastTheme |-> <<>>, lastColor |-> Null,
           lastColorRgb |-> [threw |-> FALSE, rgb |-> <<>>]]

\* LastFields that takes the first changeset for the last
LastFields_First(changesets, colors) ==
  LET n == Len(changesets)
  IN IF n > 0
     THEN [lastId |-> changesets[1].id, lastUser |-> <<changesets[1].user>>,
           lastTheme |-> <<changesets[1].theme>>, lastColor |-> ColorAt(colors, 0),
           lastColorRgb |-> hexToRgb(ColorAt(colors, 0))]
     ELSE [lastId |-> Null, lastUser |-> <<>>, lastTheme |-> <<>>, lastColor |-> Null,
           lastColorRgb |-> [threw |-> FALSE, rgb |-> <<>>]]

\* getStatistics, lines 294-323: the fields of the last changeset (null is
\* Null for the id and the colour, the empty sequence for the others)
LastFields(changesets, colors) ==
  LET n == Len(changesets)
      lastColor == ColorAt(colors, Len(colors) - 1)
  IN IF n > 0
     THEN [lastId |-> changesets[n].id, lastUser |-> <<changesets[n].user>>,
           lastTheme |-> <<changesets[n].theme>>, lastColor |-> lastColor,
           lastColorRgb |-> hexToRgb(lastColor)]
     ELSE [lastId |-> Null, lastUser |-> <<>>, lastTheme |-> <<>>, lastColor |-> Null,
           lastColorRgb |-> [threw |-> FALSE, rgb |-> <<>>]]

\* getStatistics without the loop: the Statistics object, or an exception
\* when hexToRgb is handed an undefined colour.  atCall is the array as it
\* was when getStatistics was called (lines 193-227 run before the loop),
\* changesets the array as it is when the loop is through.
BuildStatistics(changesets, colors, atCall) ==
  LET n == Len(changesets)
      l == LastFields(changesets, colors)
      colorOf(k) == ColorAt(colors, IndexOf(changesets, changesets[k]) - 1)
      users == SortedCounts([k \in 1..Len(atCall) |-> <<atCall[k].user>>])
      themes == SortedCounts([k \in 1..Len(atCall) |-> atCall[k].theme])
  IN IF l.lastColorRgb.threw \/ \E k \in 1..n : hexToRgb(colorOf(k)).threw
     THEN [threw |-> TRUE]
     ELSE [threw |-> FALSE,
           changesets |->
             [total |-> Len(atCall),
              last |-> l.lastId,
              lastColor |-> l.lastColor,
              lastColorRgb |-> l.lastColorRgb.rgb,
              colors |-> colors,
              colorsRgb |-> [k \in 1..Len(colors) |-> hexToRgb(colors[k]).rgb],
              changesets |-> [k \in 1..n |->
                 [id |-> changesets[k].id, user |-> changesets[k].user,
                  theme |-> changesets[k].theme, color |-> colorOf(k),
                  colorRgb |-> hexToRgb(colorOf(k)).rgb]]],
           users |->
             [total |-> Cardinality({atCall[k].uid : k \in 1..Len(atCall)}),
              top |-> findTop(users),
              last |-> l.lastUser,
              users |-> users],
           themes |->
             [total |-> Cardinality({atCall[k].theme : k \in 1..Len(atCall)}),
              top |-> findTop(themes),
              last |-> l.lastTheme,
              themes |-> themes],
           questions |-> SumField([k \in 1..n |-> changesets[k].answer]),
           images |-> SumField([k \in 1..n |-> changesets[k].addImage]),
           points |-> SumField([k \in 1..n |-> changesets[k].create])]

(* ------------------------------ update -------------------------------- *)
RECURSIVE SortById(_)
\* mapCompleteChangesets.sort((a, b) => a.id - b.id): stable, ascending
SortById(s) ==
  IF Len(s) <= 1 THEN s
  ELSE LET front == SortById(SubSeq(s, 1, Len(s) - 1))
           x == s[Len(s)]
           p == Cardinality({m \in 1..Len(front) : front[m].id <= x.id})
       IN SubSeq(front, 1, p) \o <<x>> \o SubSeq(front, p + 1, Len(front))

RECURSIVE PushNew_NoFind(_, _)
\* PushNew without the look-up of the id
PushNew_NoFind(arr, changesets) ==
  IF changesets = <<>> THEN arr
  ELSE PushNew_NoFind(Append(arr, Head(changesets)), Tail(changesets))

RECURSIVE PushNew(_, _)
\* update, the loop over the fetched changesets: skip an id that is there
PushNew(arr, changesets) ==
  IF changesets = <<>> THEN arr
  ELSE IF \E k \in 1..Len(arr) : arr[k].id = Head(changesets).id
       THEN PushNew(arr, Tail(changesets))
       ELSE PushNew(Append(arr, Head(changesets)), Tail(changesets))

\* Ingest without the sort
Ingest_NoSort(arr, changesets) == PushNew(arr, changesets)

\* Ingest that pushes every fetched changeset and does not sort
Ingest_Append(arr, changesets) == arr \o changesets

\* update, lines 129-141: ingestion, then the sort
Ingest(arr, changesets) == SortById(PushNew(arr, changesets))

\* update, lines 114-118: the since-timestamp
SinceDate(lut, t) ==
  IF lut - TenMinutes < SetHours0(t) THEN SetHours0(t) ELSE lut - TenMinutes


\* cleanUpSensors, lines 279-282: the cached themes without a changeset
ThemesToRemove(themes, changesets) ==
  SelectSeq(themes, LAMBDA t : \A k \in 1..Len(changesets) : changesets[k].theme # t.id)

(* ------------------------------ JSON ---------------------------------- *)
\* The values handed to JSON.stringify: objects (entries <<key, value>> in
\* insertion order), arrays, strings, numbers and null.  The text of a leaf
\* and the result of JSON.stringify are token sequences.
JObject(entries) == [type |-> "object", text |-> <<>>, entries |-> entries]
JArray(items) == [type |-> "array", text |-> <<>>, entries |-> items]
JString(text) == [type |-> "string", text |-> text, entries |-> <<>>]
JNumber(text) == [type |-> "number", text |-> text, entries |-> <<>>]
JNull == [type |-> "null", text |-> <<"null">>, entries |-> <<>>]
\* An object of counts: its entries <<key, count>>, a key a token sequence
JCounts(item) == [type |-> "counts", text |-> <<>>, entries |-> item]

RECURSIVE NumberText(_)
\* Number.prototype.toString of an integer: its decimal digits
NumberText(n) ==
  IF n < 0 THEN <<"-">> \o NumberText(0 - n)
  ELSE IF n < Len(DecimalDigits) THEN <<DecimalDigits[n + 1]>>
  ELSE NumberText(n \div Len(DecimalDigits)) \o <<DecimalDigits[(n % Len(DecimalDigits)) + 1]>>

\* The JSON value of a number (toString of NaN is "NaN")
JNum(x) == IF x.nan THEN JNumber(<<"NaN">>) ELSE JNumber(NumberText(x.n))

RECURSIVE StringifyCounts(_)
\* the properties of an object of counts
StringifyCounts(item) ==
  IF item = <<>> THEN <<>>
  ELSE <<"\"">> \o Head(item)[1] \o <<"\"", ":">> \o NumberText(Head(item)[2])
       \o (IF Len(item) > 1 THEN <<",">> ELSE <<>>) \o StringifyCounts(Tail(item))

RECURSIVE Stringify(_)
RECURSIVE StringifyEntries(_)
RECURSIVE StringifyItems(_)
\* JSON.stringify(v) (NaN is written as null)
Stringify(v) ==
  IF v.type = "object" THEN <<"{">> \o StringifyEntries(v.entries) \o <<"}">>
  ELSE IF v.type = "counts" THEN <<"{">> \o StringifyCounts(v.entries) \o <<"}">>
  ELSE IF v.type = "array" THEN <<"[">> \o StringifyItems(v.entries) \o <<"]">>
  ELSE IF v.type = "string" THEN <<"\"">> \o v.text \o <<"\"">>
  ELSE IF v.type = "number" /\ v.text = <<"NaN">> THEN <<"null">>
  ELSE v.text
StringifyEntries(entries) ==
  IF entries = <<>> THEN <<>>
  ELSE <<"\"", Head(entries)[1], "\"", ":">> \o Stringify(Head(entries)[2])
       \o (IF Len(entries) > 1 THEN <<",">> ELSE <<>>) \o StringifyEntries(Tail(entries))
StringifyItems(items) ==
  IF items = <<>> THEN <<>>
  ELSE Stringify(Head(items))
       \o (IF Len(items) > 1 THEN <<",">> ELSE <<>>) \o StringifyItems(Tail(items))

(* ------------------------------ HomeAssistant ------------------------- *)
\* `mapcomplete/statistics/theme/${themeId}`
ThemeTopic(themeId) == <<"mapcomplete", "/", "statistics", "/", "theme", "/">> \o themeId

\* cleanUpSensors, lines 287-302: the empty statistics object
EmptyStatistics ==
  JObject(<< <<"changesets", JObject(<< <<"last", JNull>>, <<"total", JNumber(<<"0">>)>>,
                                        <<"lastUrl", JNull>> >>)>>,
             <<"users", JObject(<< <<"last", JNull>>, <<"total", JNumber(<<"0">>)>>,
                                   <<"top", JNull>>, <<"users", JObject(<<>>)>> >>)>>,
             <<"questions", JNumber(<<"0">>)>>,
             <<"images", JNumber(<<"0">>)>>,
             <<"points", JNumber(<<"0">>)>> >>)

\* cleanUpSensors, lines 327-334: one level deeper, the entries of payload
SubTopicMessages(base, entries) ==
  [k \in 1..Len(entries) |->
     [topic |-> base \o <<"/", entries[k][1]>>, payload |-> Stringify(entries[k][2])]]

RECURSIVE TopicMessages(_, _)
\* cleanUpSensors, lines 317-336: every entry of statistics to its own topic
\* (typeof payload === "object" holds of the objects; no entry is null)
TopicMessages(base, entries) ==
  IF entries = <<>> THEN <<>>
  ELSE LET topic == Head(entries)[1]
           payload == Head(entries)[2]
       IN <<[topic |-> base \o <<"/", topic>>, payload |-> Stringify(payload)]>>
          \o (IF payload.type = "object"
               THEN SubTopicMessages(base \o <<"/", topic>>, payload.entries)
               ELSE <<>>)
          \o TopicMessages(base, Tail(entries))

\* ThemeMessages that publishes a discovery entry for the theme as well
ThemeMessages_Discovery(theme) ==
  LET base == ThemeTopic(cleanThemeName(theme))
  IN <<[topic |-> base, payload |-> Stringify(EmptyStatistics)],
       [topic |-> <<"homeassistant", "/", "sensor", "/", "mapcomplete", "/", "theme_">>
                    \o cleanThemeName(theme) \o <<"_changesets", "/", "config">>,
        payload |-> <<>>]>>
     \o TopicMessages(base, EmptyStatistics.entries)

\* cleanUpSensors, lines 285-337: the publishes for one theme to remove
ThemeMessages(theme) ==
  LET base == ThemeTopic(cleanThemeName(theme))
  IN <<[topic |-> base, payload |-> Stringify(EmptyStatistics)]>>
     \o TopicMessages(base, EmptyStatistics.entries)

RECURSIVE cleanUpSensors(_)
\* cleanUpSensors, the loop over themesToRemove (the ids): its publishes
cleanUpSensors(themesToRemove) ==
  IF themesToRemove = <<>> THEN <<>>
  ELSE ThemeMessages(Head(themesToRemove)) \o cleanUpSensors(Tail(themesToRemove))

\* publishThemeSensorConfig, lines 190-196: the device of the theme
ThemeDevice(theme, themeId) ==
  JObject(<< <<"name", JString(theme.title)>>,
             <<"sw_version", JString(<<"version">>)>>,
             <<"model", JString(<<"MapComplete Statistics">>)>>,
             <<"identifiers", JArray(<<JString(<<"mapcomplete_theme_">> \o themeId)>>)>>,
             <<"manufacturer", JString(<<"MapComplete MQTT">>)>> >>)

\* publishThemeSensorConfig, lines 198-260: the sensors of a theme, each
\* with its topic (THEME_ID still to be replaced) and its payload
ThemeSensors(theme, themeId) ==
  LET device == ThemeDevice(theme, themeId)
      topic(kind, what) ==
        <<"homeassistant", "/", kind, "/", "mapcomplete", "/", "theme_", "[THEME_ID]", what, "/", "config">>
      unique(what) == JString(<<"mapcomplete_theme_">> \o themeId \o <<what>>)
  IN << [topic |-> topic("sensor", "_changesets"),
         payload |-> JObject(<< <<"name", JString(<<"Changesets Today">>)>>,
           <<"state_topic", JString(ThemeTopic(themeId) \o <<"/", "changesets", "/", "total">>)>>,
           <<"entity_picture", JString(theme.icon)>>,
           <<"icon", JString(<<"mdi:map-marker">>)>>,
           <<"unit_of_measurement", JString(<<"changesets">>)>>,
           <<"unique_id", unique("_changesets")>>, <<"device", device>> >>)],
        [topic |-> topic("image", "_icon"),
         payload |-> JObject(<< <<"name", JString(<<"Icon">>)>>,
           <<"url_topic", JString(ThemeTopic(themeId) \o <<"/", "icon">>)>>,
           <<"entity_picture", JString(theme.icon)>>,
           <<"unique_id", unique("_icon")>>, <<"device", device>> >>)],
        [topic |-> topic("sensor", "_users"),
         payload |-> JObject(<< <<"name", JString(<<"Users Today">>)>>,
           <<"state_topic", JString(ThemeTopic(themeId) \o <<"/", "users", "/", "total">>)>>,
           <<"icon", JString(<<"mdi:account">>)>>,
           <<"unit_of_measurement", JString(<<"users">>)>>,
           <<"unique_id", unique("_users")>>, <<"device", device>> >>)],
        [topic |-> topic("sensor", "_last_user"),
         payload |-> JObject(<< <<"name", JString(<<"Last User">>)>>,
           <<"state_topic", JString(ThemeTopic(themeId))>>,
           <<"icon", JString(<<"mdi:account">>)>>,
           <<"unique_id", unique("_last_user")>>,
           <<"value_template", JString(<<"{{ value_json.users.last }}">>)>>,
           <<"device", device>> >>)],
        [topic |-> topic("sensor", "_top_user"),
         payload |-> JObject(<< <<"name", JString(<<"Top User(s)">>)>>,
           <<"state_topic", JString(ThemeTopic(themeId))>>,
           <<"icon", JString(<<"mdi:account">>)>>,
           <<"unique_id", unique("_top_user")>>,
           <<"value_template", JString(<<"{{ value_json.users.top }}">>)>>,
           <<"device", device>> >>)],
        [topic |-> topic("sensor", "_questions"),
         payload |-> JObject(<< <<"name", JString(<<"Questions Answered">>)>>,
           <<"state_topic", JString(ThemeTopic(themeId) \o <<"/", "questions">>)>>,
           <<"icon", JString(<<"mdi:comment-question">>)>>,
           <<"unique_id", unique("_questions")>>, <<"device", device>> >>)],
        [topic |-> topic("sensor", "_images"),
         payload |-> JObject(<< <<"name", JString(<<"Images Added">>)>>,
           <<"state_topic", JString(ThemeTopic(themeId) \o <<"/", "images">>)>>,
           <<"icon", JString(<<"mdi:image">>)>>,
           <<"unique_id", unique("_images")>>, <<"device", device>> >>)],
        [topic |-> topic("sensor", "_points"),
         payload |-> JObject(<< <<"name", JString(<<"Points Added">>)>>,
           <<"state_topic", JString(ThemeTopic(themeId) \o <<"/", "points">>)>>,
           <<"icon", JString(<<"mdi:map-marker">>)>>,
           <<"unique_id", unique("_points")>>, <<"device", device>> >>)] >>

\* publishThemeSensorConfig, lines 187-267: the publishes for one theme
\* (topic.replace("[THEME_ID]", themeId) puts a string in the place of one token)
SensorMessages(theme) ==
  LET themeId == cleanThemeName(theme.id)
      sensors == ThemeSensors(theme, themeId)
      place(topic) == CHOOSE k \in 1..Len(topic) : topic[k] = "[THEME_ID]"
  IN [k \in 1..Len(sensors) |->
        [topic |-> SubSeq(sensors[k].topic, 1, place(sensors[k].topic) - 1) \o themeId
                     \o SubSeq(sensors[k].topic, place(sensors[k].topic) + 1, Len(sensors[k].topic)),
         payload |-> Stringify(sensors[k].payload)]]

(* ------------------------------ publishStatistics -------------------- *)
HexDigits == <<"0", "1", "2", "3", "4", "5", "6", "7", "8", "9", "a", "b", "c", "d", "e", "f">>

\* A colour as the string it is in the program: "#" and six hex digits
ColorText(c) ==
  <<"#">> \o [k \in 1..6 |-> HexDigits[((c \div (16 ^ (6 - k))) % 16) + 1]]

\* `https://osm.org/changeset/${id}`
ChangesetUrl(id) ==
  <<"https:", "/", "/", "osm.org", "/", "changeset", "/">>
    \o (IF id = Null THEN <<"null">> ELSE NumberText(id))

\* [r, g, b] as a JSON value, and as the string Array.prototype.join makes of it
RgbJson(rgb) == JArray([k \in 1..Len(rgb) |-> JNumber(NumberText(rgb[k]))])
RgbText(rgb) == JoinSep([k \in 1..Len(rgb) |-> NumberText(rgb[k])], ",")

\* getStatistics, lines 325-360: the Statistics object, its properties in
\* the order of the object literal
StatisticsJson(st) ==
  LET c == st.changesets
      empty == c.last = Null
  IN JObject(<<
       <<"changesets", JObject(<<
          <<"total", JNumber(NumberText(c.total))>>,
          <<"last", IF empty THEN JNull ELSE JNumber(NumberText(c.last))>>,
          <<"lastUrl", JString(ChangesetUrl(c.last))>>,
          <<"lastColor", IF c.lastColor = Null THEN JNull ELSE JString(ColorText(c.lastColor))>>,
          <<"lastColorRgb", IF c.lastColor = Null THEN JNull ELSE RgbJson(c.lastColorRgb)>>,
          <<"colors", JArray([k \in 1..Len(c.colors) |-> JString(ColorText(c.colors[k]))])>>,
          <<"colorsStr", JString(JoinSep([k \in 1..Len(c.colors) |-> ColorText(c.colors[k])], ","))>>,
          <<"colorsRgb", JArray([k \in 1..Len(c.colorsRgb) |-> RgbJson(c.colorsRgb[k])])>>,
          <<"colorsRgbStr", JString(JoinSep([k \in 1..Len(c.colorsRgb) |-> RgbText(c.colorsRgb[k])], ","))>>,
          <<"changesets", JArray([k \in 1..Len(c.changesets) |->
             JObject(<< <<"id", JNumber(NumberText(c.changesets[k].id))>>,
                        <<"user", JString(<<c.changesets[k].user>>)>>,
                        <<"theme", JString(c.changesets[k].theme)>>,
                        <<"color", JString(ColorText(c.changesets[k].color))>>,
                        <<"colorRgb", RgbJson(c.changesets[k].colorRgb)>>,
                        <<"url", JString(ChangesetUrl(c.changesets[k].id))>> >>)])>> >>)>>,
       <<"users", JObject(<<
          <<"total", JNumber(NumberText(st.users.total))>>,
          <<"top", JString(st.users.top)>>,
          <<"last", IF empty THEN JNull ELSE JString(st.users.last)>>,
          <<"users", JCounts(st.users.users)>> >>)>>,
       <<"themes", JObject(<<
          <<"total", JNumber(NumberText(st.themes.total))>>,
          <<"top", JString(st.themes.top)>>,
          <<"last", IF empty THEN JNull ELSE JString(st.themes.last[1])>>,
          <<"themes", JCounts(st.themes.themes)>> >>)>>,
       <<"questions", JNum(st.questions)>>,
       <<"images", JNum(st.images)>>,
       <<"points", JNum(st.points)>> >>)

\* typeof value === "object"
TypeofObject(value) == value.type \in {"object", "counts", "array", "null"}

\* Object.entries(value) of an object or an array (a key is a token sequence)
ObjectEntries(value) ==
  IF value.type = "object"
  THEN [k \in 1..Len(value.entries) |-> <<<<value.entries[k][1]>>, value.entries[k][2]>>]
  ELSE IF value.type = "counts"
  THEN [k \in 1..Len(value.entries) |->
          <<value.entries[k][1], JNumber(NumberText(value.entries[k][2]))>>]
  ELSE [k \in 1..Len(value.entries) |-> <<NumberText(k - 1), value.entries[k]>>]

\* "mapcomplete/statistics"
StatisticsTopic == <<"mapcomplete", "/", "statistics">>

\* client.publish(topic, payload, { retain: true })
Retained(topic, payload) == [topic |-> topic, payload |-> payload, retain |-> TRUE]

\* publishStatistics, lines 204-208: the entries of a nested object
SubKeyMessages(base, value) ==
  LET entries == ObjectEntries(value)
  IN [k \in 1..Len(entries) |->
        Retained(base \o <<"/">> \o entries[k][1], Stringify(entries[k][2]))]

\* KeyMessages that goes one level deeper into the nested objects
RECURSIVE KeyMessages_Deep(_, _)
KeyMessages_Deep(base, entries) ==
  IF entries = <<>> THEN <<>>
  ELSE LET value == Head(entries)[2]
           topic == base \o <<"/">> \o Head(entries)[1]
       IN (IF TypeofObject(value)
           THEN SubKeyMessages(topic, value) \o <<Retained(topic, Stringify(value))>>
                  \o KeyMessages_Deep(topic, SelectSeq(ObjectEntries(value),
                                                       LAMBDA e : e[2].type \in {"object", "counts"}))
           ELSE IF value.type = "number" THEN <<Retained(topic, value.text)>>
           ELSE IF value.type = "string" THEN <<Retained(topic, value.text)>>
           ELSE <<Retained(topic, Stringify(value))>>)
          \o KeyMessages_Deep(base, Tail(entries))

RECURSIVE KeyMessages(_, _)
\* publishStatistics, lines 201-226: every entry to its own topic
KeyMessages(base, entries) ==
  IF entries = <<>> THEN <<>>
  ELSE LET value == Head(entries)[2]
           topic == base \o <<"/">> \o Head(entries)[1]
       IN (IF TypeofObject(value)
           THEN SubKeyMessages(topic, value) \o <<Retained(topic, Stringify(value))>>
           ELSE IF value.type = "number" THEN <<Retained(topic, value.text)>>
           ELSE IF value.type = "string" THEN <<Retained(topic, value.text)>>
           ELSE <<Retained(topic, Stringify(value))>>)
          \o KeyMessages(base, Tail(entries))

\* publishStatistics: its publishes, in order
publishStatistics(statistics) ==
  <<Retained(StatisticsTopic, Stringify(statistics))>>
    \o KeyMessages(StatisticsTopic, ObjectEntries(statistics))

(* ------------------------------ publishThemeData ---------------------- *)
\* A value of the type ThemeStatistics, as getThemeStatistics returns for a
\* theme with one changeset (the properties are those of the object
\* cleanUpSensors builds)
ThemeStatisticsSample ==
  JObject(<< <<"changesets", JObject(<< <<"last", JNumber(<<"1">>)>>,
                                        <<"total", JNumber(<<"1">>)>>,
                                        <<"lastUrl", JString(ChangesetUrl(1))>> >>)>>,
             <<"users", JObject(<< <<"last", JString(<<"user1">>)>>,
                                   <<"total", JNumber(<<"1">>)>>,
                                   <<"top", JString(<<"user1">>)>>,
                                   <<"users", JCounts(<< << <<"user1">>, 1>> >>)>> >>)>>,
             <<"questions", JNumber(<<"0">>)>>,
             <<"images", JNumber(<<"0">>)>>,
             <<"points", JNumber(<<"0">>)>> >>)

\* publishThemeData, lines 241-294: the publishes for one theme
ThemeDataMessages(theme, themeStatistics, themes) ==
  LET base == <<"mapcomplete", "/", "statistics", "/", "theme", "/">> \o theme
  IN <<Retained(base, Stringify(themeStatistics))>>
     \o KeyMessages(base, ObjectEntries(themeStatistics))
     \o (IF FindTheme(themes, theme) = 0 THEN <<>>
         ELSE <<Retained(base \o <<"/", "icon">>, themes[FindTheme(themes, theme)].icon)>>)

RECURSIVE publishThemeData(_, _, _)
\* publishThemeData: its publishes for the keys of themes, in order
publishThemeData(keys, themeStatistics, themes) ==
  IF keys = <<>> THEN <<>>
  ELSE ThemeDataMessages(Head(keys), themeStatistics, themes)
         \o publishThemeData(Tail(keys), themeStatistics, themes)

RECURSIVE publishThemeSensorConfig(_)
\* publishThemeSensorConfig: its publishes for the themes not yet published
publishThemeSensorConfig(themes) ==
  IF themes = <<>> THEN <<>>
  ELSE (IF Head(themes).published THEN <<>> ELSE SensorMessages(Head(themes)))
         \o publishThemeSensorConfig(Tail(themes))

(* ------------------------------ publishSensorConfig ------------------- *)
\* The boolean false as a JSON value
JFalse == [type |-> "false", text |-> <<"false">>, entries |-> <<>>]

\* version of ./Globals (the file is not in src/): some string
version == <<"version">>

\* HomeAssistant.device
device ==
  JObject(<< <<"name", JString(<<"MapComplete">>)>>,
             <<"sw_version", JString(version)>>,
             <<"model", JString(<<"MapComplete Statistics">>)>>,
             <<"identifiers", JArray(<<JString(<<"mapcomplete">>)>>)>>,
             <<"manufacturer", JString(<<"MapComplete MQTT">>)>> >>)

\* `{{ value_json.${group}.${key} }}`
ValueTemplate(group, key) == <<"{{ ", "value_json", ".", group, ".", key, " }}">>

NoField == <<>>
\* One entry of sensors: the name in the topic and the fields of the payload
\* (unit, attrs and template NoField, enabled TRUE, where the source has none)
Sensor(key, name, unit, state, icon, id, attrs, enabled, template) ==
  [key |-> key, name |-> name, unit |-> unit, state |-> state, icon |-> icon,
   unique_id |-> id, attrs |-> attrs, enabled |-> enabled, template |-> template]

\* publishSensorConfig, lines 53-163: the sensors, in the order of the source
sensors ==
  << Sensor("totalChangesets", "Changesets Today", <<"changesets">>,
            StatisticsTopic \o <<"/", "changesets", "/", "total">>, "mdi:map-marker",
            "mapcomplete_changesets_total", StatisticsTopic \o <<"/", "changesets">>,
            TRUE, NoField),
     Sensor("lastChangeset", "Last Changeset", NoField,
            StatisticsTopic \o <<"/", "changesets", "/", "last">>, "mdi:map-marker",
            "mapcomplete_changesets_last", NoField, FALSE, NoField),
     Sensor("lastChangesetColor", "Last Changeset Color", NoField,
            StatisticsTopic, "mdi:palette",
            "mapcomplete_changesets_last_color", NoField, FALSE,
            ValueTemplate("changesets", "lastColor")),
     Sensor("lastChangesetColorRgb", "Last Changeset Color RGB", NoField,
            StatisticsTopic, "mdi:palette",
            "mapcomplete_changesets_last_color_rgb", NoField, FALSE,
            ValueTemplate("changesets", "lastColorRgb")),
     Sensor("totalUsers", "Users Today", <<"users">>,
            StatisticsTopic \o <<"/", "users", "/", "total">>, "mdi:account",
            "mapcomplete_users_total", StatisticsTopic \o <<"/", "users", "/", "users">>,
            TRUE, NoField),
     Sensor("lastUser", "Last User", NoField, StatisticsTopic, "mdi:account",
            "mapcomplete_users_last", NoField, TRUE, ValueTemplate("users", "last")),
     Sensor("topUser", "Top User(s)", NoField, StatisticsTopic, "mdi:account",
            "mapcomplete_users_top", NoField, TRUE, ValueTemplate("users", "top")),
     Sensor("totalThemes", "Themes Used Today", <<"themes">>,
            StatisticsTopic \o <<"/", "themes", "/", "total">>, "mdi:palette",
            "mapcomplete_themes_total", StatisticsTopic \o <<"/", "themes", "/", "themes">>,
            TRUE, NoField),
     Sensor("lastTheme", "Last Theme", NoField, StatisticsTopic, "mdi:palette",
            "mapcomplete_themes_last", NoField, TRUE, ValueTemplate("themes", "last")),
     Sensor("topTheme", "Top Theme(s)", NoField, StatisticsTopic, "mdi:palette",
            "mapcomplete_themes_top", NoField, TRUE, ValueTemplate("themes", "top")),
     Sensor("totalQuestions", "Questions Answered Today", <<"questions">>,
            StatisticsTopic \o <<"/", "questions">>, "mdi:comment-question",
            "mapcomplete_questions_total", NoField, TRUE, NoField),
     Sensor("totalImages", "Images Added Today", <<"images">>,
            StatisticsTopic \o <<"/", "images">>, "mdi:image",
            "mapcomplete_images_total", NoField, TRUE, NoField),
     Sensor("totalPoints", "Points Added Today", <<"points">>,
            StatisticsTopic \o <<"/", "points">>, "mdi:map-marker",
            "mapcomplete_points_total", NoField, TRUE, NoField) >>

\* `homeassistant/sensor/mapcomplete/${key}/config`
SensorConfigTopic(key) ==
  <<"homeassistant", "/", "sensor", "/", "mapcomplete", "/", key, "/", "config">>

\* The payload object of a sensor: the fields it has, in the order of the source
SensorPayload(sensor) ==
  JObject(<< <<"name", JString(<<sensor.name>>)>> >>
          \o (IF sensor.unit = NoField THEN <<>>
              ELSE << <<"unit_of_measurement", JString(sensor.unit)>> >>)
          \o << <<"state_topic", JString(sensor.state)>>,
                <<"icon", JString(<<sensor.icon>>)>>,
                <<"unique_id", JString(<<sensor.unique_id>>)>> >>
          \o (IF sensor.attrs = NoField THEN <<>>
              ELSE << <<"json_attributes_topic", JString(sensor.attrs)>> >>)
          \o (IF sensor.enabled THEN <<>> ELSE << <<"enabled_by_default", JFalse>> >>)
          \o (IF sensor.template = NoField THEN <<>>
              ELSE << <<"value_template", JString(sensor.template)>> >>)
          \o << <<"device", device>> >>)

\* publishSensorConfig, lines 167-171: its publishes, in order
publishSensorConfig ==
  [k \in 1..Len(sensors) |->
     Retained(SensorConfigTopic(sensors[k].key), Stringify(SensorPayload(sensors[k])))]

\* README, "Home Assistant sensors": the sensor ids of the table
ReadmeSensorIds ==
  {"mapcomplete_changesets_total", "mapcomplete_changesets_last",
   "mapcomplete_changesets_last_color", "mapcomplete_changesets_last_rgb",
   "mapcomplete_users_total", "mapcomplete_users_last", "mapcomplete_users_top",
   "mapcomplete_themes_total", "mapcomplete_themes_last", "mapcomplete_themes_top",
   "mapcomplete_questions_total", "mapcomplete_images_total", "mapcomplete_points_total"}

(* ------------------------------ FakeClient ---------------------------- *)
\* FakeClient.data as the nodes below the root in the order in which they
\* were made: the path of a node (the topics from the root down) and its
\* message, if it has one.
NodeAt(data, path) ==
  IF \E k \in 1..Len(data) : data[k].path = path
  THEN CHOOSE k \in 1..Len(data) : data[k].path = path
  ELSE 0

RECURSIVE MakeNodes(_, _, _)
\* saveMessage, lines 26-33: the children on the way down are made
MakeNodes(data, parts, n) ==
  IF n > Len(parts) THEN data
  ELSE IF NodeAt(data, SubSeq(parts, 1, n)) # 0 THEN MakeNodes(data, parts, n + 1)
  ELSE MakeNodes(Append(data, [path |-> SubSeq(parts, 1, n), has |-> FALSE, message |-> <<>>]),
                 parts, n + 1)

\* saveMessage that puts the message behind the one the node has
saveMessage_Append(data, topic, message) ==
  LET parts == Split(topic)
      made == MakeNodes(data, parts, 1)
      at == NodeAt(made, parts)
  IN [made EXCEPT ![at] = [@ EXCEPT !.has = TRUE, !.message = @ \o message]]

\* FakeClient.saveMessage
saveMessage(data, topic, message) ==
  LET parts == Split(topic)
      made == MakeNodes(data, parts, 1)
      at == NodeAt(made, parts)
  IN [made EXCEPT ![at] = [@ EXCEPT !.has = TRUE, !.message = message]]

(* ------------------------------ locals ------------------------------- *)
Slots == 1..lim.slots
ThemeIds == {Records[k].theme : k \in 1..Len(Records)}
NoChangeset ==
  [id |-> 0, date |-> 0, theme |-> <<>>, host |-> <<>>, user |-> "", uid |-> "",
   answer |-> Absent, addImage |-> Absent, create |-> Absent]
NoStats == [threw |-> TRUE]
NoFetch == -1
NoIngest == [ingest |-> FALSE, skipped |-> FALSE, resorted |-> FALSE]
NoCall ==
  [fn |-> "none", done |-> FALSE, name |-> <<>>, item |-> <<>>, values |-> <<>>,
   cleaned |-> <<>>, top |-> <<>>, sum |-> Num(0), changesets |-> <<>>, stats |-> NoStats,
   messages |-> <<>>, sent |-> 0, calling |-> FALSE, data |-> <<>>, first |-> <<>>,
   times |-> 0, themes |-> <<>>]

\* The locals of one invocation of update() (and of the getStatistics and
\* getThemeDetails calls it is in).
Idle ==
  [pc |-> "idle", newDay |-> FALSE, since |-> 0, detached |-> FALSE, arr |-> <<>>,
   idx |-> 0, colors |-> <<>>, cur |-> NoChangeset, baseUrl |-> <<>>, icon |-> <<>>,
   name |-> <<>>, short |-> FALSE, stats |-> NoStats, k |-> 0,
   atCall |-> <<>>, resolved |-> <<>>, remove |-> <<>>, issued |-> 0, failed |-> FALSE,
   entry |-> 0, sent |-> 0, threw |-> FALSE, retry |-> FALSE, prev |-> 0]

InFlight(i) == inv[i].pc # "idle"
InStatistics(i) == inv[i].pc \in {"themeFile", "icon"}

\* The array getStatistics iterates: the one it was called with, which is
\* mapCompleteChangesets unless a rollover has replaced that since.
CurArr(i) == IF inv[i].detached THEN inv[i].arr ELSE mapCompleteChangesets

\* index.ts:45 runs before process.env.TZ is set to "UTC" (line 55):
\* new Date().setHours(0, 0, 0, 0) is the midnight of the host's time zone,
\* offset units ahead of UTC, at or before the time t of the start
LocalMidnight(t, offset, day) == ((t + offset) \div day) * day - offset

\* The process starts at a time up to maxStart on a host whose time zone is
\* up to maxOffset ahead of UTC
InitWith(l, maxStart, maxOffset) ==
  /\ lim = l
  /\ now \in 0..maxStart
  /\ upstream = <<>>
  /\ lastUpdateTime \in {LocalMidnight(now, offset, l.day) : offset \in 0..maxOffset}
  /\ mapCompleteChangesets = <<>>
  /\ mapCompleteThemes = <<>>
  /\ inv = [i \in Slots |-> Idle]
  /\ mainPc = "start"
  /\ started = 0
  /\ ingested = {}
  /\ fetched = {}
  /\ step = NoIngest
  /\ client = "none"
  /\ fetchedAt = NoFetch

Init ==
  /\ InitWith([time |-> MaxTime, ids |-> MaxId, cycles |-> MaxCycles, slots |-> MaxInFlight,
               recs |-> {2, 3}, day |-> DayLen, history |-> FALSE], 0, 0)
  /\ helper = NoCall
  /\ dry_run = FALSE

InitCalendar ==
  /\ InitWith([time |-> CalendarTime, ids |-> CalendarIds, cycles |-> CalendarCycles, slots |-> 1,
               recs |-> 1..Len(Records), day |-> DayLen, history |-> FALSE], MaxStart, MaxOffset)
  /\ helper = NoCall
  /\ dry_run = FALSE

\* main() with DRY_RUN "True" or not, one update() at a time, history kept.
InitMain ==
  /\ InitWith([time |-> MainTime, ids |-> MainIds, cycles |-> MainCycles, slots |-> 1,
               recs |-> {2, 3}, day |-> MainDayLen, history |-> TRUE], 0, 0)
  /\ helper = NoCall
  /\ dry_run \in BOOLEAN

\* An unhandled rejection ends the process, and so does process.exit.
Running == mainPc \notin {"crashed", "rejected", "exited"}

\* A publish can reject with the client of connectAsync; FakeClient.publish
\* returns Promise.resolve().
CanReject == client = "mqtt"

(* ------------------------------ the world ----------------------------- *)
Tick(d) ==
  /\ Running
  /\ now + d <= lim.time
  /\ now' = now + d
  /\ UNCHANGED <<upstream, lastUpdateTime, mapCompleteChangesets, mapCompleteThemes,
                 inv, mainPc, started, ingested, fetched, helper, lim, dry_run, client, fetchedAt>>

\* Somebody uploads a changeset with the editor.
CreateChangeset(r) ==
  /\ Running
  /\ Len(upstream) < lim.ids
  /\ upstream' = Append(upstream,
       [id |-> Len(upstream) + 1, date |-> now, theme |-> Records[r].theme,
        host |-> Records[r].host, user |-> Records[r].user, uid |-> Records[r].uid,
        answer |-> Records[r].answer, addImage |-> Records[r].addImage,
        create |-> Records[r].create])
  /\ UNCHANGED <<now, lastUpdateTime, mapCompleteChangesets, mapCompleteThemes,
                 inv, mainPc, started, ingested, fetched, helper, lim, dry_run, client, fetchedAt>>

(* ------------------------------ update() ------------------------------ *)
\* update, lines 181-185 (also reached from the catch block): the locals
\* once the try statement is left.
AfterTry(rec, themes, changesets) ==
  IF rec.newDay /\ ThemesToRemove(themes, changesets) # <<>>
  THEN [Idle EXCEPT !.pc = "cleanup", !.newDay = TRUE,
                    !.remove = LET r == ThemesToRemove(themes, changesets)
                               IN [k \in 1..Len(r) |-> r[k].id]]
  ELSE Idle

\* The history of the invocation, where it is kept (lim.history): the
\* lastUpdateTime at the entry of the try statement, the since-timestamp
\* sent, and whether the try statement was left through the catch block.
Carry(rec, after, threw) ==
  [after EXCEPT !.entry = rec.entry, !.sent = rec.sent, !.threw = threw /\ lim.history]

\* update, lines 99-122: the synchronous part before the fetch.
StartUpdate(i) ==
  LET roll == GetDate(lastUpdateTime) # GetDate(now)
      lut == IF roll THEN SetHours0(now) ELSE lastUpdateTime
  IN /\ ~InFlight(i)
     /\ started < lim.cycles
     /\ started' = started + 1
     /\ lastUpdateTime' = lut
     /\ mapCompleteChangesets' = IF roll THEN <<>> ELSE mapCompleteChangesets
     /\ ingested' = IF roll THEN {} ELSE ingested
     /\ inv' = [j \in Slots |->
          IF j = i
          THEN [Idle EXCEPT !.pc = "fetch", !.newDay = roll, !.since = SinceDate(lut, now),
                            !.issued = IF lim.history THEN now ELSE 0,
                            !.entry = IF lim.history THEN lut ELSE 0,
                            !.sent = IF lim.history THEN SinceDate(lut, now) ELSE 0,
                            !.retry = inv[i].threw,
                            !.prev = IF inv[i].threw THEN inv[i].sent ELSE 0]
          ELSE IF roll /\ InStatistics(j) /\ ~inv[j].detached
          THEN [inv[j] EXCEPT !.detached = TRUE, !.arr = mapCompleteChangesets]
          ELSE inv[j]]
     /\ fetchedAt' = IF roll THEN NoFetch ELSE fetchedAt
     /\ UNCHANGED <<now, upstream, mapCompleteThemes, fetched, helper, lim, dry_run>>

\* getStatistics from the loop on: rec are the locals, changesets the array
\* getStatistics works on, r where ColorLoop stopped, global the array in
\* mapCompleteChangesets.  Gives the new locals.
AdvanceLoop(rec, changesets, r, global) ==
  IF r.at = "themeFile"
  THEN [rec EXCEPT !.pc = "themeFile", !.idx = r.idx, !.colors = r.colors, !.cur = r.cur,
                   !.baseUrl = r.baseUrl, !.short = FALSE, !.icon = <<>>, !.name = <<>>,
                   !.resolved = r.resolved]
  ELSE IF r.at = "icon"
  THEN [rec EXCEPT !.pc = "icon", !.idx = r.idx, !.colors = r.colors, !.cur = r.cur,
                   !.baseUrl = <<>>, !.short = r.short, !.icon = r.icon, !.name = r.name,
                   !.resolved = r.resolved]
  ELSE LET st == BuildStatistics(changesets, r.colors, rec.atCall)
       IN IF st.threw
          THEN Carry(rec, AfterTry(rec, r.themes, global), TRUE)
          ELSE [Idle EXCEPT !.pc = "pubStats", !.newDay = rec.newDay, !.stats = st,
                            !.resolved = r.resolved, !.entry = rec.entry, !.sent = rec.sent]

\* A resolution that goes to the network is recorded when it starts.
CountFetch(r) ==
  IF r.at = "done" THEN fetched ELSE fetched \cup {r.cur.theme}

\* osmCha.getChangesets has returned changesets (lines 126-144); failed: it
\* returned the empty array of its catch block.
Ingested(i, changesets, failed) ==
  LET pushed == PushNew(mapCompleteChangesets, changesets)
      arr == Ingest(mapCompleteChangesets, changesets)
      r == ColorLoop(arr, 0, <<>>, <<>>, mapCompleteThemes)
  IN /\ mapCompleteChangesets' = arr
     /\ ingested' = ingested \cup {changesets[k].id : k \in 1..Len(changesets)}
     /\ mapCompleteThemes' = r.themes
     /\ inv' = [inv EXCEPT ![i] = AdvanceLoop([inv[i] EXCEPT !.since = 0, !.issued = 0, !.atCall = arr,
                                                           !.retry = FALSE, !.prev = 0,
                                                           !.failed = failed /\ lim.history],
                                               arr, r, arr)]
     /\ fetched' = CountFetch(r)
     /\ step' = [ingest |-> TRUE,
                 skipped |-> Len(pushed) < Len(mapCompleteChangesets) + Len(changesets),
                 resorted |-> pushed # arr]
     /\ UNCHANGED <<now, upstream, lastUpdateTime, mainPc, started, helper, lim, dry_run, client>>

\* The pages OSMCha can answer with: up to MaxPage records made since the
\* date asked for, in any order, repeats included.
Pages(since) ==
  LET ok == {id \in 1..Len(upstream) : upstream[id].date >= since}
  IN UNION {[1..n -> ok] : n \in 0..MaxPage}

FetchReturn(i, page) ==
  /\ Running
  /\ inv[i].pc = "fetch"
  /\ Ingested(i, [k \in 1..Len(page) |-> upstream[page[k]]], FALSE)
  /\ fetchedAt' = IF lim.history THEN inv[i].issued ELSE fetchedAt

\* getChangesets, lines 36-39: the request or the decoding failed.
FetchFail(i) ==
  /\ Running
  /\ inv[i].pc = "fetch"
  /\ Ingested(i, <<>>, TRUE)
  /\ UNCHANGED fetchedAt


\* getThemeDetails has returned d for the changeset the loop is at: lines
\* 238-248, and the loop goes on.
Returned(i, d) ==
  LET rec == inv[i]
      r == ColorLoop(CurArr(i), rec.idx + 1, Append(rec.colors, d.color),
                     Append(rec.resolved, rec.cur.theme),
                     PushTheme(mapCompleteThemes, rec.cur.theme, d))
  IN /\ mapCompleteThemes' = r.themes
     /\ inv' = [inv EXCEPT ![i] = AdvanceLoop(rec, CurArr(i), r, mapCompleteChangesets)]
     /\ fetched' = CountFetch(r)

\* getThemeDetails has thrown: lines 249-252, and the loop goes on.
Threw(i) ==
  LET rec == inv[i]
      r == ColorLoop(CurArr(i), rec.idx + 1, rec.colors, rec.resolved, mapCompleteThemes)
  IN /\ mapCompleteThemes' = r.themes
     /\ inv' = [inv EXCEPT ![i] = AdvanceLoop(rec, CurArr(i), r, mapCompleteChangesets)]
     /\ fetched' = CountFetch(r)

\* getThemeFile, lines 414-421: the theme file has been downloaded and parsed.
ThemeFileReturn(i) ==
  LET rec == inv[i]
      d == AfterThemeFile(rec.cur.theme, ThemeDef(rec.cur.theme), rec.baseUrl)
  IN /\ Running
     /\ rec.pc = "themeFile"
     /\ IF d.fetchImage
        THEN /\ inv' = [inv EXCEPT ![i] = [rec EXCEPT !.pc = "icon", !.baseUrl = <<>>,
                                                     !.icon = d.icon, !.name = d.name]]
             /\ UNCHANGED <<mapCompleteThemes, fetched>>
        ELSE Returned(i, d)
     /\ UNCHANGED <<now, upstream, lastUpdateTime, mapCompleteChangesets, mainPc,
                    started, ingested, helper, lim, dry_run, client, fetchedAt>>

\* getThemeFile, lines 414-415: fetch or json() rejects; nothing in
\* getThemeFile or getThemeDetails catches it.
ThemeFileFail(i) ==
  /\ Running
  /\ inv[i].pc = "themeFile"
  /\ Threw(i)
  /\ UNCHANGED <<now, upstream, lastUpdateTime, mapCompleteChangesets, mainPc,
                 started, ingested, helper, lim, dry_run, client, fetchedAt>>

\* getThemeDetails, lines 143-179: the image download and the sampling are over.
IconReturn(i, sample) ==
  /\ Running
  /\ inv[i].pc = "icon"
  /\ Returned(i, [color |-> ImageColor(sample), icon |-> inv[i].icon, name |-> inv[i].name])
  /\ UNCHANGED <<now, upstream, lastUpdateTime, mapCompleteChangesets, mainPc,
                 started, ingested, helper, lim, dry_run, client, fetchedAt>>

\* Caught that sets lastUpdateTime as the end of the try block does
Caught_SetsTime(i) ==
  /\ inv' = [inv EXCEPT ![i] = Carry(inv[i], AfterTry(inv[i], mapCompleteThemes,
                                                       mapCompleteChangesets), TRUE)]
  /\ lastUpdateTime' = now
  /\ UNCHANGED mapCompleteThemes

\* update, the catch block and what follows it.
Caught(i) ==
  /\ inv' = [inv EXCEPT ![i] = Carry(inv[i], AfterTry(inv[i], mapCompleteThemes,
                                                       mapCompleteChangesets), TRUE)]
  /\ UNCHANGED <<lastUpdateTime, mapCompleteThemes>>

\* update, line 176 and what follows it.
TryDone(i, themes) ==
  /\ lastUpdateTime' = now
  /\ mapCompleteThemes' = themes
  /\ inv' = [inv EXCEPT ![i] = Carry(inv[i], AfterTry(inv[i], themes, mapCompleteChangesets),
                                      FALSE)]

\* publishStatistics (line 167) is over: ok, or one of its publishes rejected.
StatsPublished(i, ok) ==
  /\ Running
  /\ ok \/ CanReject
  /\ inv[i].pc = "pubStats"
  /\ IF ok
     THEN /\ inv' = [inv EXCEPT ![i] = [@ EXCEPT !.pc = "pubThemeData", !.resolved = <<>>]]
          /\ UNCHANGED <<lastUpdateTime, mapCompleteThemes>>
     ELSE Caught(i)
  /\ UNCHANGED <<now, upstream, mapCompleteChangesets, mainPc, started, ingested,
                 fetched, helper, lim, dry_run, client, fetchedAt>>

\* publishThemeSensorConfig: the next theme of the cache, from index k on,
\* that is not published yet (0: none)
NextUnpublished(themes, k) ==
  IF \E m \in k..Len(themes) : ~themes[m].published
  THEN CHOOSE m \in k..Len(themes) :
         ~themes[m].published /\ \A n \in k..(m - 1) : themes[n].published
  ELSE 0

\* publishThemeData (line 170) is over; publishThemeSensorConfig starts and
\* runs up to its first publish.
ThemeDataPublished(i, ok) ==
  LET k == NextUnpublished(mapCompleteThemes, 1)
  IN /\ Running
     /\ ok \/ CanReject
     /\ inv[i].pc = "pubThemeData"
     /\ IF ~ok THEN Caught(i)
        ELSE IF k # 0
        THEN /\ inv' = [inv EXCEPT ![i] = [@ EXCEPT !.pc = "pubSensor", !.k = k, !.stats = NoStats]]
             /\ UNCHANGED <<lastUpdateTime, mapCompleteThemes>>
        ELSE TryDone(i, mapCompleteThemes)
     /\ UNCHANGED <<now, upstream, mapCompleteChangesets, mainPc, started, ingested,
                    fetched, helper, lim, dry_run, client, fetchedAt>>

\* publishThemeSensorConfig, lines 263-270: the discovery payloads of theme
\* k are out (or a publish rejected); the loop goes on to the next theme.
SensorPublished(i, ok) ==
  LET themes == [mapCompleteThemes EXCEPT ![inv[i].k].published = TRUE]
      k == NextUnpublished(themes, inv[i].k + 1)
  IN /\ Running
     /\ ok \/ CanReject
     /\ inv[i].pc = "pubSensor"
     /\ IF ~ok THEN Caught(i)
        ELSE IF k # 0
        THEN /\ inv' = [inv EXCEPT ![i].k = k]
             /\ mapCompleteThemes' = themes
             /\ UNCHANGED lastUpdateTime
        ELSE TryDone(i, themes)
     /\ UNCHANGED <<now, upstream, mapCompleteChangesets, mainPc, started, ingested,
                    fetched, helper, lim, dry_run, client, fetchedAt>>

\* cleanUpSensors (line 183) is over.  It is awaited outside the try
\* statement: when a publish rejects, update() rejects, and neither main()
\* nor the interval callback handles that.
CleanupDone(i, ok) ==
  /\ Running
  /\ ok \/ CanReject
  /\ inv[i].pc = "cleanup"
  /\ inv' = [inv EXCEPT ![i] = Carry(inv[i], Idle, inv[i].threw)]
  /\ mainPc' = IF ok THEN mainPc ELSE "rejected"
  /\ UNCHANGED <<now, upstream, lastUpdateTime, mapCompleteChangesets, mapCompleteThemes,
                 started, ingested, fetched, helper, lim, dry_run, client, fetchedAt>>

\* The publishes of the call of publishThemeSensorConfig (for the theme it
\* is at) or of cleanUpSensors that invocation i is waiting for.
Publishing(i) ==
  IF inv[i].pc = "cleanup" THEN cleanUpSensors(inv[i].remove)
  ELSE IF inv[i].pc = "pubSensor" THEN SensorMessages(mapCompleteThemes[inv[i].k])
  ELSE <<>>

(* ------------------------------ main() -------------------------------- *)
\* main, lines 63-69: connectAsync resolves with the client or rejects
\* (nothing handles the rejection of main()).
MainConnect(ok) ==
  /\ mainPc = "start"
  /\ ~dry_run
  /\ mainPc' = IF ok THEN "connected" ELSE "crashed"
  /\ client' = IF ok THEN "mqtt" ELSE client
  /\ UNCHANGED <<now, upstream, lastUpdateTime, mapCompleteChangesets, mapCompleteThemes,
                 inv, started, ingested, fetched, helper, lim, dry_run, fetchedAt>>

\* main, lines 70-78: in a dry run the FakeClient is made; then the initial
\* update
MainStart ==
  /\ mainPc = IF dry_run THEN "start" ELSE "connected"
  /\ mainPc' = "update"
  /\ client' = IF dry_run THEN "fake" ELSE client
  /\ StartUpdate(1)

\* MainConfig that sets the interval in a dry run as well
MainConfig_Interval(ok) ==
  /\ mainPc = "update"
  /\ ~InFlight(1)
  /\ ok \/ CanReject
  /\ mainPc' = IF ok THEN "interval" ELSE "crashed"
  /\ UNCHANGED <<now, upstream, lastUpdateTime, mapCompleteChangesets, mapCompleteThemes,
                 inv, started, ingested, fetched, helper, lim, dry_run, client, fetchedAt>>

\* main, lines 81-90: the initial update is over; publishSensorConfig, then
\* setInterval, or in a dry run the timer of process.exit.
MainConfig(ok) ==
  /\ mainPc = "update"
  /\ ~InFlight(1)
  /\ ok \/ CanReject
  /\ mainPc' = IF ~ok THEN "crashed" ELSE IF dry_run THEN "exitTimer" ELSE "interval"
  /\ UNCHANGED <<now, upstream, lastUpdateTime, mapCompleteChangesets, mapCompleteThemes,
                 inv, started, ingested, fetched, helper, lim, dry_run, client, fetchedAt>>

\* main, line 89: the timer of the dry run fires, process.exit(0)
Exit ==
  /\ mainPc = "exitTimer"
  /\ mainPc' = "exited"
  /\ UNCHANGED <<now, upstream, lastUpdateTime, mapCompleteChangesets, mapCompleteThemes,
                 inv, started, ingested, fetched, helper, lim, dry_run, client, fetchedAt>>

\* main, line 85: the interval callback calls update(), whatever the
\* earlier invocations are doing.
TimerFire(i) ==
  /\ mainPc = "interval"
  /\ \A j \in 1..(i - 1) : InFlight(j)
  /\ StartUpdate(i)
  /\ UNCHANGED <<mainPc, client>>

\* A step that is no ingestion.
Plain == step' = NoIngest

Next ==
  \/ \E d \in 1..lim.time : Tick(d) /\ Plain
  \/ \E r \in lim.recs : CreateChangeset(r) /\ Plain
  \/ \E ok \in BOOLEAN : MainConnect(ok) /\ Plain
  \/ MainStart /\ Plain
  \/ \E ok \in BOOLEAN : MainConfig(ok) /\ Plain
  \/ \E i \in Slots : TimerFire(i) /\ Plain
  \/ \E i \in Slots : \E page \in Pages(inv[i].since) : FetchReturn(i, page)
  \/ \E i \in Slots : FetchFail(i)
  \/ \E i \in Slots : ThemeFileReturn(i) /\ Plain
  \/ \E i \in Slots : ThemeFileFail(i) /\ Plain
  \/ \E i \in Slots : \E sample \in IconSamples : IconReturn(i, sample) /\ Plain
  \/ \E i \in Slots : \E ok \in BOOLEAN : StatsPublished(i, ok) /\ Plain
  \/ \E i \in Slots : \E ok \in BOOLEAN : ThemeDataPublished(i, ok) /\ Plain
  \/ \E i \in Slots : \E ok \in BOOLEAN : SensorPublished(i, ok) /\ Plain
  \/ \E i \in Slots : \E ok \in BOOLEAN : CleanupDone(i, ok) /\ Plain

Spec == Init /\ [][Next]_vars

SpecCalendar == InitCalendar /\ [][Next]_vars

\* In a dry run the process exits. Every await of the program comes to an
\* end (the requests are answered or fail), so a step that can be taken is
\* taken.
NextMain == Next \/ (Exit /\ Plain)

SpecMain == InitMain /\ [][NextMain]_vars /\ WF_vars(NextMain)

(* ------------------------------ the helpers --------------------------- *)
\* Theme ids: plain ones, and ones with slashes such as the URL of a theme
\* file (the id of a theme that is not hosted with the editor).
ThemeNames ==
  { <<"cyclofix">>, <<"a", "/", "b">>, <<"a", "/", "b", "/", "c">>,
    HttpsPrefix \o <<"example.org", "/", "mytheme", ".", "json">> }

\* Objects of counts: up to MaxKeys keys in any order, counts up to MaxCount.
TopKeys == << <<"a">>, <<"b">>, <<"c">> >>
Items ==
  UNION { { [k \in 1..n |-> <<TopKeys[order[k]], count[k]>>] :
              order \in {f \in [1..n -> 1..MaxKeys] : \A x, y \in 1..n : f[x] = f[y] => x = y},
              count \in [1..n -> 1..MaxCount] } : n \in 0..MaxKeys }

\* Values of a metadata counter: absent, numbers, and strings that are none.
CounterValues ==
  { Absent, Field(<<"2">>), Field(<<"1">>), Field(<<"1", "0">>), Field(<<"a">>), Field(<<>>) }
CounterLists == UNION { [1..n -> CounterValues] : n \in 0..MaxCounters }

\* Who made a changeset and with which theme: user names that are array
\* indices or names of Object.prototype are user names as well, and a user
\* can have changed the display name (uid "2").
StatSamples ==
  << [user |-> "user1", uid |-> "1", theme |-> <<"etymology">>],
     [user |-> "user2", uid |-> "2", theme |-> <<"cyclofix">>],
     [user |-> "user2", uid |-> "2", theme |-> <<"advertising">>],
     [user |-> "user3", uid |-> "2", theme |-> <<"cyclofix">>],
     [user |-> "7", uid |-> "7", theme |-> <<"etymology">>],
     [user |-> "__proto__", uid |-> "9", theme |-> <<"cyclofix">>] >>

\* The array update() hands to getStatistics: sorted by id, ids distinct.
StatChangesets ==
  UNION { { [k \in 1..n |->
               [NoChangeset EXCEPT !.id = k, !.user = StatSamples[pick[k]].user,
                                   !.uid = StatSamples[pick[k]].uid,
                                   !.theme = StatSamples[pick[k]].theme,
                                   !.host = OrgPrefix \o StatSamples[pick[k]].theme]] :
              pick \in [1..n -> 1..Len(StatSamples)] } : n \in 0..MaxChangesets }

\* A theme cache that holds the themes of StatSamples.
StatCache ==
  << [id |-> <<"etymology">>, title |-> <<"Etymology">>, icon |-> DefaultIcon,
      published |-> TRUE, color |-> themeColors["default"]],
     [id |-> <<"cyclofix">>, title |-> <<"Cyclofix">>, icon |-> DefaultIcon,
      published |-> TRUE, color |-> themeColors["cyclofix"]],
     [id |-> <<"advertising">>, title |-> <<"Advertising">>, icon |-> DefaultIcon,
      published |-> TRUE, color |-> themeColors["advertising"]] >>

\* getStatistics(changesets) with the themes of the changesets in the cache
getStatistics(changesets, themes) ==
  BuildStatistics(changesets, ColorLoop(changesets, 0, <<>>, <<>>, themes).colors, changesets)

\* Theme ids as they come in the metadata of a changeset
CachedThemeIds == ThemeNames \cup { <<"a", "_", "b">> }

\* The cache entry getStatistics pushes for a theme that got the default
\* theme object
CachedTheme(id) ==
  [id |-> id, title |-> id, icon |-> DefaultIcon, published |-> FALSE, color |-> DefaultColor]

\* Theme caches with one theme or two
ThemeCaches ==
  { <<CachedTheme(a)>> : a \in CachedThemeIds }
    \cup { <<CachedTheme(p[1]), CachedTheme(p[2])>> :
             p \in {q \in CachedThemeIds \X CachedThemeIds : q[1] # q[2]} }

\* The calls: a helper function and its argument.
InitHelpers ==
  /\ InitWith([time |-> 0, ids |-> 0, cycles |-> 0, slots |-> 1, recs |-> {}, day |-> DayLen,
               history |-> FALSE], 0, 0)
  /\ dry_run = FALSE
  /\ \/ \E name \in ThemeNames : helper = [NoCall EXCEPT !.fn = "cleanThemeName", !.name = name]
     \/ \E item \in Items : helper = [NoCall EXCEPT !.fn = "findTop", !.item = item]
     \/ \E values \in CounterLists : helper = [NoCall EXCEPT !.fn = "reduce", !.values = values]
     \/ \E changesets \in StatChangesets :
          helper = [NoCall EXCEPT !.fn = "getStatistics", !.changesets = changesets]
     \/ \E changesets \in StatChangesets :
          helper = [NoCall EXCEPT !.fn = "publishStatistics", !.changesets = changesets,
                                  !.stats = getStatistics(changesets, StatCache)]
     \/ helper = [NoCall EXCEPT !.fn = "publishSensorConfig"]
     \/ \E themes \in ThemeCaches : helper = [NoCall EXCEPT !.fn = "themes", !.themes = themes]

Frame ==
  UNCHANGED <<now, upstream, lastUpdateTime, mapCompleteChangesets, mapCompleteThemes,
              inv, mainPc, started, ingested, fetched, step, lim, dry_run, client, fetchedAt>>

\* this.helpers.cleanThemeName(theme.id)
CallCleanThemeName ==
  /\ helper.fn = "cleanThemeName" /\ ~helper.done
  /\ helper' = [helper EXCEPT !.done = TRUE, !.cleaned = cleanThemeName(helper.name)]
  /\ Frame

\* this.helpers.findTop(users), this.helpers.findTop(themes)
CallFindTop ==
  /\ helper.fn = "findTop" /\ ~helper.done
  /\ helper' = [helper EXCEPT !.done = TRUE, !.top = findTop(helper.item)]
  /\ Frame

\* changesets.reduce(...) over the values of one metadata counter
CallReduce ==
  /\ helper.fn = "reduce" /\ ~helper.done
  /\ helper' = [helper EXCEPT !.done = TRUE, !.sum = SumField(helper.values)]
  /\ Frame

\* mapComplete.getStatistics(mapCompleteChangesets)
CallGetStatistics ==
  /\ helper.fn = "getStatistics" /\ ~helper.done
  /\ helper' = [helper EXCEPT !.done = TRUE,
                               !.stats = getStatistics(helper.changesets, StatCache)]
  /\ Frame

\* publishStatistics(client, statistics) with a FakeClient is called, up to
\* two times with the same Statistics value
CallPublishStatistics ==
  /\ helper.fn = "publishStatistics" /\ ~helper.calling /\ helper.times < 2
  /\ helper' = [helper EXCEPT !.calling = TRUE, !.sent = 0,
                               !.messages = publishStatistics(StatisticsJson(helper.stats))]
  /\ Frame

\* homeAssistant.publishSensorConfig() with a FakeClient is called
CallPublishSensorConfig ==
  /\ helper.fn = "publishSensorConfig" /\ ~helper.calling /\ ~helper.done
  /\ helper' = [helper EXCEPT !.calling = TRUE, !.sent = 0, !.messages = publishSensorConfig]
  /\ Frame

\* The ids of the cached themes, in order
CachedIds == [k \in 1..Len(helper.themes) |-> helper.themes[k].id]

\* A cycle with a changeset of every cached theme: publishThemeData(client,
\* statistics.themes.themes) with a FakeClient is called
CallPublishThemeData ==
  /\ helper.fn = "themes" /\ ~helper.calling /\ helper.times = 0
  /\ helper' = [helper EXCEPT !.calling = TRUE, !.sent = 0,
                               !.messages = publishThemeData(CachedIds, ThemeStatisticsSample,
                                                             helper.themes)]
  /\ Frame

\* then homeAssistant.publishThemeSensorConfig(mapCompleteThemes)
CallPublishThemeSensorConfig ==
  /\ helper.fn = "themes" /\ ~helper.calling /\ helper.times = 1
  /\ helper' = [helper EXCEPT !.calling = TRUE, !.sent = 0,
                               !.messages = publishThemeSensorConfig(helper.themes)]
  /\ Frame

\* and, in the cycle of the next day, with no changeset yet,
\* homeAssistant.cleanUpSensors(mapCompleteThemes, mapCompleteChangesets)
CallCleanUpSensors ==
  /\ helper.fn = "themes" /\ ~helper.calling /\ helper.times = 2
  /\ helper' = [helper EXCEPT !.calling = TRUE, !.sent = 0,
                               !.messages = LET r == ThemesToRemove(helper.themes, <<>>)
                                            IN cleanUpSensors([k \in 1..Len(r) |-> r[k].id])]
  /\ Frame

\* The call is at its next await client.publish(...): FakeClient.publish
\* saves the message; after the last one the call returns.
ClientPublish ==
  LET message == helper.messages[helper.sent + 1]
      data == saveMessage(helper.data, message.topic, message.payload)
      last == helper.sent + 1 = Len(helper.messages)
  IN /\ helper.calling /\ helper.sent < Len(helper.messages)
     /\ helper' = [helper EXCEPT !.sent = @ + 1, !.data = data,
                                  !.calling = ~last,
                                  !.done = last,
                                  !.times = IF last THEN @ + 1 ELSE @,
                                  !.first = IF last /\ helper.times = 0 THEN data ELSE @]
     /\ Frame

NextHelpers ==
  \/ CallCleanThemeName
  \/ CallFindTop
  \/ CallReduce
  \/ CallGetStatistics
  \/ CallPublishStatistics
  \/ CallPublishSensorConfig
  \/ CallPublishThemeData
  \/ CallPublishThemeSensorConfig
  \/ CallCleanUpSensors
  \/ ClientPublish

SpecHelpers == InitHelpers /\ [][NextHelpers]_vars


(* ------------------------------ properties ---------------------------- *)
\* Invocation i of update() starts, resp. is over, with this step.
StartOf(i) == inv[i].pc = "idle" /\ inv'[i].pc = "fetch"
EndOf(i) == inv[i].pc # "idle" /\ inv'[i].pc = "idle"

\* C1: update cycles never overlap: at most one invocation of update() is
\* in flight at any time.
C1_NoOverlap == Cardinality({i \in Slots : InFlight(i)}) <= 1

\* C2: day invariant: at the end of every update cycle every changeset in
\* mapCompleteChangesets was made on the UTC day of lastUpdateTime.
DayInvariant ==
  \A k \in 1..Len(mapCompleteChangesets) :
    Day(mapCompleteChangesets[k].date) = Day(lastUpdateTime)
C2_DayInvariant == [][\A i \in Slots : EndOf(i) => DayInvariant']_vars

\* C3: rollover detection: a cycle that starts on a calendar day other than
\* that of lastUpdateTime clears the changesets, sets lastUpdateTime to the
\* start of the current day and flags newDay.
C3_RolloverDetected ==
  [][\A i \in Slots :
       StartOf(i) /\ Day(lastUpdateTime) # Day(now)
         => /\ mapCompleteChangesets' = <<>>
            /\ lastUpdateTime' = SetHours0(now)
            /\ inv'[i].newDay]_vars

\* C4: dedup invariant: mapCompleteChangesets holds no id twice, and every
\* id handed to the ingestion since the array was started is in it.
C4_Dedup ==
  /\ \A k, m \in 1..Len(mapCompleteChangesets) :
       mapCompleteChangesets[k].id = mapCompleteChangesets[m].id => k = m
  /\ {mapCompleteChangesets[k].id : k \in 1..Len(mapCompleteChangesets)} = ingested
\* An ingestion has just skipped an id that came again (within the page or
\* from an earlier cycle).
C4_Witness == step.ingest /\ step.skipped /\ Len(mapCompleteChangesets) >= 1

\* C5: ordering invariant: mapCompleteChangesets is sorted strictly
\* ascending by id (after every ingestion, and so in every state).
C5_Sorted ==
  \A k \in 1..(Len(mapCompleteChangesets) - 1) :
    mapCompleteChangesets[k].id < mapCompleteChangesets[k + 1].id
\* An ingestion has just put records in order that were pushed out of order.
C5_Witness == step.ingest /\ step.resorted /\ Len(mapCompleteChangesets) >= 2

\* C6: a resolution failure is not fatal: when getThemeDetails throws and
\* getStatistics thereby comes to its end, getStatistics returns a
\* Statistics value that counts every changeset and has fewer colours than
\* changesets, and the cycle goes on to publish it.
C6_FailureNotFatal ==
  [][\A i \in Slots :
       ThemeFileFail(i) /\ inv'[i].pc \notin {"themeFile", "icon"}
         => /\ inv'[i].pc = "pubStats"
            /\ inv'[i].stats.changesets.total = Len(CurArr(i))
            /\ Len(inv'[i].stats.changesets.colors) < Len(CurArr(i))]_vars

\* C7: the colour resolver never throws: when the download or the parsing of
\* the theme definition fails, getThemeDetails returns the default colour,
\* the default icon and the theme id as title (which getStatistics then
\* puts in the theme cache).
C7_NeverThrows ==
  [][\A i \in Slots :
       ThemeFileFail(i)
         => LET theme == inv[i].cur.theme
                k == FindTheme(mapCompleteThemes', theme)
            IN /\ k # 0
               /\ mapCompleteThemes'[k].color = DefaultColor
               /\ mapCompleteThemes'[k].icon = DefaultIcon
               /\ mapCompleteThemes'[k].title = theme]_vars

\* Invocation i starts, with this step, a resolution that goes to the network.
NewResolution(i) ==
  /\ inv'[i].pc \in {"themeFile", "icon"}
  /\ inv'[i].pc = "icon" => inv'[i].short
  /\ inv[i].pc \notin {"themeFile", "icon"} \/ inv'[i].idx # inv[i].idx

\* C8: colour-cache law: a theme is fetched from the network by at most one
\* resolution in the life of the process.
C8_FetchedOnce ==
  [][\A i \in Slots : NewResolution(i) => inv'[i].cur.theme \notin fetched]_vars

\* C9: unresolvable host: a resolution that took the branch for an
\* unrecognised host performs no network call (it never waits for the
\* image download).
C9_ShortCircuitNoNetwork == \A i \in Slots : ~(inv[i].pc = "icon" /\ inv[i].short)

\* C10: error containment: update() never rejects.
C10_NeverRejects == mainPc # "rejected"

\* The themes the call of cleanUpSensors that invocation i waits for zeroes.
ZeroedThemes(i) == {inv[i].remove[k] : k \in 1..Len(inv[i].remove)}

\* The cached themes without a changeset in mapCompleteChangesets.
StaleThemes ==
  {mapCompleteThemes[k].id : k \in {m \in 1..Len(mapCompleteThemes) :
     \A c \in 1..Len(mapCompleteChangesets) :
       mapCompleteChangesets[c].theme # mapCompleteThemes[m].id}}

\* publishThemeData, index.ts:244: the topic of a theme's statistics
ThemeDataTopic(theme) == <<"mapcomplete", "/", "statistics", "/", "theme", "/">> \o theme

\* Invocation i is publishing payload to the topic.
IsPublishing(i, topic, payload) ==
  \E m \in 1..Len(Publishing(i)) :
    Publishing(i)[m].topic = topic /\ Publishing(i)[m].payload = payload

\* The zeroed leaves of a theme's statistics: sub-topic and payload.
ZeroedLeaves ==
  { << <<"/", "changesets", "/", "total">>, <<"0">> >>,
    << <<"/", "changesets", "/", "last">>, <<"null">> >>,
    << <<"/", "users", "/", "total">>, <<"0">> >>,
    << <<"/", "users", "/", "last">>, <<"null">> >>,
    << <<"/", "questions">>, <<"0">> >>,
    << <<"/", "images">>, <<"0">> >>,
    << <<"/", "points">>, <<"0">> >> }

\* C11: rollover cleanup: cleanUpSensors runs in a cycle that detected a day
\* rollover, and while it publishes, the themes it zeroes are exactly the
\* cached themes that have no changeset in the changeset set: each of them
\* gets a zeroed payload at its topic and at the sub-topics, and no theme
\* that has a changeset in the set is zeroed.
C11_RolloverCleanup ==
  \A i \in Slots : inv[i].pc = "cleanup" =>
    /\ inv[i].newDay
    /\ ZeroedThemes(i) = StaleThemes
    /\ \A theme \in ZeroedThemes(i) :
         /\ \E m \in 1..Len(Publishing(i)) : Publishing(i)[m].topic = ThemeDataTopic(theme)
         /\ \A leaf \in ZeroedLeaves :
              IsPublishing(i, ThemeDataTopic(theme) \o leaf[1], leaf[2])

\* C12: cleanup leaves discovery untouched: every publish of cleanUpSensors
\* goes to a topic under mapcomplete/statistics/theme/, none to a topic under
\* homeassistant/, and the call leaves the theme cache as it is.
C12_CleanupLeavesDiscovery ==
  [][\A i \in Slots :
       inv[i].pc = "cleanup" /\ inv'[i].pc # "cleanup"
         => /\ \A m \in 1..Len(Publishing(i)) :
                 /\ StartsWith(Publishing(i)[m].topic, ThemeDataTopic(<<>>))
                 /\ Publishing(i)[m].topic[1] # "homeassistant"
            /\ mapCompleteThemes' = mapCompleteThemes]_vars
\* cleanUpSensors is zeroing a theme whose discovery has been published.
C12_Witness ==
  \E i \in Slots :
    /\ inv[i].pc = "cleanup"
    /\ Len(Publishing(i)) > 0
    /\ \E k \in 1..Len(mapCompleteThemes) :
         mapCompleteThemes[k].id \in ZeroedThemes(i) /\ mapCompleteThemes[k].published

\* C13: discovery is emitted once per theme: an entry of the theme cache
\* starts with published = false; the flag becomes true only with the end of
\* the publishes of that theme's discovery payloads, never returns to false,
\* and no discovery payload is being published for a theme whose flag is true.
C13_DiscoveryOnce ==
  [][/\ \A k \in 1..Len(mapCompleteThemes') :
          /\ k > Len(mapCompleteThemes) => ~mapCompleteThemes'[k].published
          /\ k <= Len(mapCompleteThemes) /\ mapCompleteThemes[k].published
               => mapCompleteThemes'[k].published
          /\ k <= Len(mapCompleteThemes) /\ ~mapCompleteThemes[k].published
                /\ mapCompleteThemes'[k].published
               => \E i \in Slots : inv[i].pc = "pubSensor" /\ inv[i].k = k
                                     /\ inv'[i] # inv[i]
     /\ \A i \in Slots :
          inv'[i].pc = "pubSensor" => ~mapCompleteThemes'[inv'[i].k].published]_vars

\* C14: theme id sanitisation: cleanThemeName returns the id with every
\* slash replaced by an underscore, so the result holds no slash.
C14_EverySlashReplaced ==
  helper.fn = "cleanThemeName" /\ helper.done
    => /\ \A k \in 1..Len(helper.cleaned) : helper.cleaned[k] # "/"
       /\ helper.cleaned = [k \in 1..Len(helper.name) |->
                              IF helper.name[k] = "/" THEN "_" ELSE helper.name[k]]

\* The counter is a string of decimal digits.
IsInteger(field) ==
  field.has /\ field.text # <<>> /\ \A k \in 1..Len(field.text) : IsDigit(field.text[k])

\* The integer a counter stands for: its decimal value when it is a string
\* of digits, 0 when it is absent or no such string.
IntegerValue(field) == IF IsInteger(field) THEN DigitsValue(field.text) ELSE 0

RECURSIVE SumOfValues(_)
SumOfValues(values) ==
  IF values = <<>> THEN 0 ELSE IntegerValue(Head(values)) + SumOfValues(Tail(values))

\* C15: unparsable counters count as 0: the sum over a metadata counter is
\* always an integer, the sum of the values that can be parsed.
C15_UnparsableCountsAsZero ==
  helper.fn = "reduce" /\ helper.done
    => ~helper.sum.nan /\ helper.sum.n = SumOfValues(helper.values)

\* C16: numeric rollup: when every counter that is present is an integer,
\* the sum is the sum of these integers, an absent counter counting 0.
C16_NumericRollup ==
  helper.fn = "reduce" /\ helper.done
    /\ (\A k \in 1..Len(helper.values) : helper.values[k].has => IsInteger(helper.values[k]))
    => helper.sum = Num(SumOfValues(helper.values))
\* add-image "2", "1" and absent give 3
C16_Witness ==
  /\ helper.fn = "reduce" /\ helper.done
  /\ helper.values = <<Field(<<"2">>), Field(<<"1">>), Absent>>
  /\ helper.sum = Num(3)

\* Invocation i holds the Statistics value getStatistics returned to it.
HasStatistics(i) == inv[i].pc \in {"pubStats", "pubThemeData"}

\* C17: last fields are all-or-nothing: in a Statistics value of an empty
\* changeset set changesets.last, users.last, themes.last, lastColor and
\* lastColorRgb are all null and the three totals 0; in one of a non-empty
\* set all of them are set.
C17_LastAllOrNothing ==
  \A i \in Slots : HasStatistics(i) =>
    LET st == inv[i].stats
    IN IF st.changesets.changesets = <<>>
       THEN /\ st.changesets.last = Null /\ st.users.last = <<>> /\ st.themes.last = <<>>
            /\ st.changesets.lastColor = Null /\ st.changesets.lastColorRgb = <<>>
            /\ st.changesets.total = 0 /\ st.users.total = 0 /\ st.themes.total = 0
       ELSE /\ st.changesets.last # Null /\ st.users.last # <<>> /\ st.themes.last # <<>>
            /\ st.changesets.lastColor \notin {Null, Undefined}
            /\ st.changesets.lastColorRgb # <<>>
\* One invocation holds the statistics of an empty set, another those of a
\* non-empty set.
C17_Witness ==
  \E i, j \in Slots :
    /\ HasStatistics(i) /\ inv[i].stats.changesets.changesets = <<>>
    /\ HasStatistics(j) /\ inv[j].stats.changesets.changesets # <<>>

\* C18: last reflects the highest id: when getStatistics returns for a
\* non-empty changeset set, changesets.last is the highest id of the set,
\* users.last and themes.last are the user and the theme of that changeset,
\* and lastColor is the colour that was resolved for its theme.
C18_LastIsHighest ==
  [][\A i \in Slots :
       inv[i].pc # "pubStats" /\ inv'[i].pc = "pubStats"
         => LET arr == IF inv[i].detached THEN inv[i].arr ELSE mapCompleteChangesets'
                st == inv'[i].stats
                colors == st.changesets.colors
                resolved == inv'[i].resolved
            IN arr # <<>>
                 => \E k \in 1..Len(arr) :
                      /\ \A m \in 1..Len(arr) : arr[m].id <= arr[k].id
                      /\ st.changesets.last = arr[k].id
                      /\ st.users.last = <<arr[k].user>>
                      /\ st.themes.last = <<arr[k].theme>>
                      /\ st.changesets.lastColor = colors[Len(colors)]
                      /\ resolved[Len(resolved)] = arr[k].theme]_vars
\* The statistics of a set of two changesets of different themes and colours.
C18_Witness ==
  \E i \in Slots :
    /\ inv[i].pc = "pubStats"
    /\ Len(inv[i].stats.changesets.changesets) = 2
    /\ inv[i].stats.changesets.changesets[1].theme # inv[i].stats.changesets.changesets[2].theme
    /\ inv[i].stats.changesets.changesets[1].color # inv[i].stats.changesets.changesets[2].color
    /\ inv[i].stats.changesets.last = 2

\* C19: colour list alignment: in a Statistics value the colours are in the
\* order of the changesets, and the colour of each entry of the
\* per-changeset list is the one that was resolved for the theme of that
\* changeset.
C19_ColorsAligned ==
  \A i \in Slots : inv[i].pc = "pubStats" =>
    LET list == inv[i].stats.changesets.changesets
        colors == inv[i].stats.changesets.colors
    IN /\ Len(colors) = Len(list)
       /\ \A k \in 1..Len(list) :
            /\ list[k].color = colors[k]
            /\ inv[i].resolved[k] = list[k].theme

\* The keys of item with the highest count, in the order of item.
TiedKeys(item) ==
  LET top == SelectSeq(item, LAMBDA e : \A k \in 1..Len(item) : item[k][2] <= e[2])
  IN [k \in 1..Len(top) |-> top[k][1]]

\* C20: top-tie law: for a non-empty mapping findTop returns the key with
\* the highest count when there is one such key, and else all keys with the
\* highest count, joined by ", " in the mapping's order; no key with a
\* smaller count is in the result.
C20_TopTie ==
  helper.fn = "findTop" /\ helper.done /\ helper.item # <<>>
    => /\ Len(TiedKeys(helper.item)) = 1 => helper.top = TiedKeys(helper.item)[1]
       /\ Len(TiedKeys(helper.item)) > 1 => helper.top = JoinSep(TiedKeys(helper.item), ", ")
       /\ \A k \in 1..Len(helper.item) :
            (\E m \in 1..Len(helper.item) : helper.item[m][2] > helper.item[k][2])
              => \A t \in 1..Len(helper.top) : <<helper.top[t]>> # helper.item[k][1]
\* top({a: 3, b: 3, c: 1}) = "a, b"
C20_Witness ==
  /\ helper.fn = "findTop" /\ helper.done
  /\ helper.item = << <<<<"a">>, 3>>, <<<<"b">>, 3>>, <<<<"c">>, 1>> >>
  /\ helper.top = <<"a", ", ", "b">>

\* The place (from 1) of the first changeset with this user, resp. theme.
FirstSeenUser(changesets, key) ==
  CHOOSE k \in 1..Len(changesets) :
    <<changesets[k].user>> = key /\ \A m \in 1..(k - 1) : <<changesets[m].user>> # key
FirstSeenTheme(changesets, key) ==
  CHOOSE k \in 1..Len(changesets) :
    changesets[k].theme = key /\ \A m \in 1..(k - 1) : changesets[m].theme # key

RECURSIVE SumOfValuesOf(_)
SumOfValuesOf(ns) == IF ns = <<>> THEN 0 ELSE Head(ns) + SumOfValuesOf(Tail(ns))

\* C21: sorted counts: the per-user and the per-theme mapping of a
\* Statistics value list their keys by count descending, keys with the same
\* count in the order in which they are first seen in the changeset set,
\* whatever the user names and theme ids are.
C21_SortedCounts ==
  helper.fn = "getStatistics" /\ helper.done
    => LET users == helper.stats.users.users
           themes == helper.stats.themes.themes
       IN /\ \A a, b \in 1..Len(users) : a < b =>
               \/ users[a][2] > users[b][2]
               \/ /\ users[a][2] = users[b][2]
                  /\ FirstSeenUser(helper.changesets, users[a][1])
                       < FirstSeenUser(helper.changesets, users[b][1])
          /\ \A a, b \in 1..Len(themes) : a < b =>
               \/ themes[a][2] > themes[b][2]
               \/ /\ themes[a][2] = themes[b][2]
                  /\ FirstSeenTheme(helper.changesets, themes[a][1])
                       < FirstSeenTheme(helper.changesets, themes[b][1])

\* The user names of helper.changesets are neither array indices nor names
\* of Object.prototype.
PlainUserNames ==
  \A k \in 1..Len(helper.changesets) :
    ~IsArrayIndex(<<helper.changesets[k].user>>) /\ <<helper.changesets[k].user>> # ProtoKey

\* C21 for user names that are no array indices
C21_SortedPlainNames == PlainUserNames => C21_SortedCounts

\* The sum of the counts of a mapping
SumOfCounts(item) == SumOfValuesOf([k \in 1..Len(item) |-> item[k][2]])

\* C22: counts: changesets.total is the number of changesets, users.total
\* the number of distinct uids, themes.total the number of distinct themes
\* and of keys of the per-theme mapping, and the per-user and the per-theme
\* counts each sum to changesets.total.
C22_Counts ==
  helper.fn = "getStatistics" /\ helper.done
    => LET st == helper.stats
           cs == helper.changesets
       IN /\ st.changesets.total = Len(cs)
          /\ st.users.total = Cardinality({cs[k].uid : k \in 1..Len(cs)})
          /\ st.themes.total = Cardinality({cs[k].theme : k \in 1..Len(cs)})
          /\ st.themes.total = Len(st.themes.themes)
          /\ SumOfCounts(st.users.users) = st.changesets.total
          /\ SumOfCounts(st.themes.themes) = st.changesets.total

\* C22 for user names that are no names of Object.prototype
C22_CountsPlainNames == PlainUserNames => C22_Counts

\* user1/etymology, user2/cyclofix, user2/advertising: total 3, two users,
\* top user2, three themes, last 3
C22_Example ==
  /\ helper.fn = "getStatistics" /\ helper.done
  /\ [k \in 1..Len(helper.changesets) |->
        <<helper.changesets[k].user, helper.changesets[k].theme>>]
       = << <<"user1", <<"etymology">> >>, <<"user2", <<"cyclofix">> >>,
            <<"user2", <<"advertising">> >> >>
  /\ helper.stats.changesets.total = 3
  /\ helper.stats.users.total = 2
  /\ helper.stats.users.top = <<"user2">>
  /\ helper.stats.themes.total = 3
  /\ helper.stats.changesets.last = 3

\* The Statistics object of the call of publishStatistics
Published == StatisticsJson(helper.stats)

\* The topics of the messages the call has made
PublishedTopics == {helper.messages[k].topic : k \in 1..Len(helper.messages)}

\* The number of levels a topic is below mapcomplete/statistics
LevelsBelowRoot(topic) == Len(Split(topic)) - Len(Split(StatisticsTopic))

\* C23: two-level flattening: publishStatistics writes the root topic with
\* the whole object, root/k for every top-level key k, root/k/s for every
\* entry s of a top-level value that is a mapping, and no other topic; no
\* topic is deeper than two levels below the root.
C23_TwoLevels ==
  helper.fn = "publishStatistics" /\ helper.done
    => LET st == Published
           keys == 1..Len(st.entries)
           level1 == {StatisticsTopic \o <<"/", st.entries[k][1]>> : k \in keys}
           level2 == UNION { { StatisticsTopic \o <<"/", st.entries[k][1], "/",
                                                    st.entries[k][2].entries[m][1]>> :
                                 m \in 1..Len(st.entries[k][2].entries) } :
                             k \in {k \in keys : st.entries[k][2].type = "object"} }
       IN /\ PublishedTopics = {StatisticsTopic} \cup level1 \cup level2
          /\ \E k \in 1..Len(helper.messages) :
               helper.messages[k] = Retained(StatisticsTopic, Stringify(st))
          /\ \A topic \in PublishedTopics : LevelsBelowRoot(topic) \in 0..2
          /\ \A k \in 1..Len(helper.data) : Len(helper.data[k].path) <= Len(Split(StatisticsTopic)) + 2
\* the per-user mapping of two users goes to users/users as a whole
C23_Witness ==
  /\ helper.fn = "publishStatistics" /\ helper.done
  /\ Len(helper.stats.users.users) = 2
  /\ Len(helper.stats.changesets.changesets) = 3
  /\ \E k \in 1..Len(helper.messages) :
       /\ helper.messages[k].topic = StatisticsTopic \o <<"/", "users", "/", "users">>
       /\ helper.messages[k].payload = Stringify(JCounts(helper.stats.users.users))
  /\ StatisticsTopic \o <<"/", "points">> \in PublishedTopics
  /\ Cardinality(PublishedTopics) = Len(helper.messages)

\* The payload a value has by the claim: the plain text of a number or a
\* string, the JSON text of anything else.
PlainOrJson(value) ==
  IF value.type \in {"number", "string"} THEN value.text ELSE Stringify(value)

\* The payload published to the topic
PayloadAt(topic) ==
  helper.messages[CHOOSE k \in 1..Len(helper.messages) : helper.messages[k].topic = topic].payload

\* The first-level part of C24: a top-level number or string is published
\* as plain text, a top-level object as JSON.
C24_FirstLevelPlain ==
  helper.fn = "publishStatistics" /\ helper.done
    => \A k \in 1..Len(Published.entries) :
         PayloadAt(StatisticsTopic \o <<"/", Published.entries[k][1]>>)
           = PlainOrJson(Published.entries[k][2])

\* C24: payload encoding: every payload of publishStatistics is JSON,
\* except that a number or a string is published as its plain text, at the
\* first and at the second level alike.
C24_PlainLeaves ==
  helper.fn = "publishStatistics" /\ helper.done
    => /\ PayloadAt(StatisticsTopic) = Stringify(Published)
       /\ C24_FirstLevelPlain
       /\ \A k \in 1..Len(Published.entries) :
            Published.entries[k][2].type = "object"
              => \A m \in 1..Len(Published.entries[k][2].entries) :
                   PayloadAt(StatisticsTopic \o <<"/", Published.entries[k][1], "/",
                                                Published.entries[k][2].entries[m][1]>>)
                     = PlainOrJson(Published.entries[k][2].entries[m][2])

Computing(i) == inv[i].pc \in {"themeFile", "icon"}

\* Invocation i has the Statistics value and is publishing it.
PublishesStatistics(i) == inv[i].pc = "pubStats"

\* C26: a fetch failure is contained: when the request or the decoding
\* fails, getChangesets returns the empty array, the cycle leaves the
\* changeset set as it is and goes on to compute and publish the statistics.
C26_FetchFailureContained ==
  [][\A i \in Slots :
       /\ FetchFail(i) =>
            /\ mapCompleteChangesets' = mapCompleteChangesets
            /\ Computing(i)' \/ PublishesStatistics(i)'
       /\ inv[i].failed /\ Computing(i) => Computing(i)' \/ PublishesStatistics(i)']_vars

\* C26 for the cycles in which no download of a theme definition fails
C26_ContainedWithoutThemeFailure ==
  [][\A i \in Slots :
       /\ FetchFail(i) =>
            /\ mapCompleteChangesets' = mapCompleteChangesets
            /\ Computing(i)' \/ PublishesStatistics(i)'
       /\ inv[i].failed /\ Computing(i) /\ ~ThemeFileFail(i)
            => Computing(i)' \/ PublishesStatistics(i)']_vars

\* C27: the theme cache survives rollover: no step removes an entry or
\* changes the id, title, icon or colour of one; the cache only grows and
\* holds at most one entry for a theme id.
C27_CacheOnlyGrows ==
  [][/\ Len(mapCompleteThemes') >= Len(mapCompleteThemes)
     /\ \A k \in 1..Len(mapCompleteThemes) :
          /\ mapCompleteThemes'[k].id = mapCompleteThemes[k].id
          /\ mapCompleteThemes'[k].title = mapCompleteThemes[k].title
          /\ mapCompleteThemes'[k].icon = mapCompleteThemes[k].icon
          /\ mapCompleteThemes'[k].color = mapCompleteThemes[k].color
     /\ \A a, b \in 1..Len(mapCompleteThemes') :
          mapCompleteThemes'[a].id = mapCompleteThemes'[b].id => a = b]_vars
\* a rollover cycle has emptied the changeset set and is cleaning up, and
\* the theme of the day before is in the cache
C27_Witness ==
  \E i \in Slots :
    /\ inv[i].pc = "cleanup" /\ inv[i].newDay
    /\ mapCompleteChangesets = <<>>
    /\ Len(mapCompleteThemes) >= 1
    /\ inv[i].remove = <<mapCompleteThemes[1].id>>

\* Invocation i is awaiting a publish of the client.
AwaitsPublish(i) == inv[i].pc \in {"pubStats", "pubThemeData", "pubSensor", "cleanup"}

\* What holds at every moment of a dry run
DryRunSafe ==
  /\ client # "mqtt"
  /\ mainPc \notin {"connected", "interval"}
  /\ started <= 1
  /\ \A i \in Slots : AwaitsPublish(i) => client = "fake"
  /\ mainPc \in {"exitTimer", "exited"} => started = 1 /\ \A i \in Slots : ~InFlight(i)

\* C28: dry run: with DRY_RUN "True" no connection to a broker is opened,
\* every publish goes to the FakeClient, one update cycle is executed, no
\* repeating timer is set, and the process then exits.
C28_DryRun == [](dry_run => DryRunSafe) /\ (dry_run ~> mainPc = "exited")
\* the dry run has exited after its one cycle, which published statistics
C28_Witness ==
  /\ dry_run /\ mainPc = "exited" /\ started = 1 /\ client = "fake"
  /\ mapCompleteChangesets # <<>>
  /\ lastUpdateTime > 0

\* C30: no gap between fetch windows: the since-timestamp of a request is
\* the start of the day, or no later than the instant at which the latest
\* request of the day that succeeded was issued.
C30_NoGap ==
  \A i \in Slots :
    inv[i].pc = "fetch"
      => \/ inv[i].since = SetHours0(inv[i].issued)
         \/ fetchedAt # NoFetch /\ inv[i].since <= fetchedAt

\* The discovery payloads the FakeClient holds after publishSensorConfig
DiscoveryPayloads == {helper.data[k].message : k \in {n \in 1..Len(helper.data) : helper.data[n].has}}

\* The value of the string property unique_id in the JSON text of a payload
UniqueIdOf(payload) ==
  LET at == CHOOSE k \in 2..Len(payload) - 5 :
              /\ payload[k] = "unique_id"
              /\ payload[k - 1] = "\"" /\ payload[k + 1] = "\""
              /\ payload[k + 2] = ":" /\ payload[k + 3] = "\"" /\ payload[k + 5] = "\""
  IN payload[at + 4]

PublishedSensorIds == {UniqueIdOf(payload) : payload \in DiscoveryPayloads}

\* C29: documented sensor ids: the sensor ids in the table of the README are
\* the unique_id values of the discovery payloads published by
\* publishSensorConfig: 13 sensors, every id of the table is published and
\* every published id is in the table.
C29_DocumentedSensorIds ==
  helper.fn = "publishSensorConfig" /\ helper.done
    => /\ Cardinality(DiscoveryPayloads) = 13
       /\ PublishedSensorIds = ReadmeSensorIds

\* 13 sensors with 13 ids are published; the table and the payloads differ
\* in the id of the RGB colour sensor only
C29_ApartFromRgb ==
  helper.fn = "publishSensorConfig" /\ helper.done
    => /\ Cardinality(DiscoveryPayloads) = 13
       /\ Cardinality(PublishedSensorIds) = 13
       /\ PublishedSensorIds \ ReadmeSensorIds = {"mapcomplete_changesets_last_color_rgb"}
       /\ ReadmeSensorIds \ PublishedSensorIds = {"mapcomplete_changesets_last_rgb"}

\* The ids of the changesets in mapCompleteChangesets
SetIds == {mapCompleteChangesets[k].id : k \in 1..Len(mapCompleteChangesets)}

C31_CatchFrame ==
  [][\A i \in Slots :
       (\/ StatsPublished(i, FALSE) \/ ThemeDataPublished(i, FALSE) \/ SensorPublished(i, FALSE)
        \/ inv[i].pc \in {"fetch", "themeFile", "icon"} /\ inv'[i].pc \in {"idle", "cleanup"})
         => /\ lastUpdateTime' = lastUpdateTime
            /\ SetIds \subseteq SetIds']_vars

\* Two invocations of update() are in flight.
Overlapping == \E i, j \in Slots : i # j /\ InFlight(i) /\ InFlight(j)

\* C32: dedup and ordering under interleaving: while two invocations of
\* update() are in flight, however they interleave at their awaits,
\* mapCompleteChangesets holds no id twice and is sorted ascending by id
\* after every ingestion step, and the theme cache holds no theme id twice.
C32_InterleavingSafe ==
  Overlapping
    => /\ Cardinality(SetIds) = Len(mapCompleteChangesets)
       /\ \A k, m \in 1..Len(mapCompleteChangesets) :
            k < m => mapCompleteChangesets[k].id <= mapCompleteChangesets[m].id
       /\ Cardinality({mapCompleteThemes[k].id : k \in 1..Len(mapCompleteThemes)})
            = Len(mapCompleteThemes)
\* the second of two invocations has just ingested a page with an id the
\* first had ingested already, while the first is in getStatistics; a theme
\* is cached
C32_Witness ==
  /\ step.ingest /\ step.skipped
  /\ \E i, j \in Slots : i # j /\ InStatistics(i) /\ InFlight(j)
  /\ Len(mapCompleteChangesets) >= 2
  /\ Len(mapCompleteThemes) >= 1

\* The payload has the string property key, and its value
HasString(payload, key) ==
  \E k \in 2..Len(payload) - 4 :
    /\ payload[k] = key /\ payload[k - 1] = "\"" /\ payload[k + 1] = "\""
    /\ payload[k + 2] = ":" /\ payload[k + 3] = "\""
StringValue(payload, key) ==
  LET at == CHOOSE k \in 2..Len(payload) - 4 :
              /\ payload[k] = key /\ payload[k - 1] = "\"" /\ payload[k + 1] = "\""
              /\ payload[k + 2] = ":" /\ payload[k + 3] = "\""
      end == CHOOSE e \in (at + 4)..Len(payload) :
               payload[e] = "\"" /\ \A m \in (at + 4)..(e - 1) : payload[m] # "\""
  IN SubSeq(payload, at + 4, end - 1)

\* The topics a discovery payload points to
NamedTopics(payload) ==
  {StringValue(payload, key) : key \in {k \in {"state_topic", "url_topic"} : HasString(payload, k)}}

\* The topics that hold a message after publishThemeData
DataTopics == {helper.first[k].path : k \in {n \in 1..Len(helper.first) : helper.first[n].has}}

\* The discovery payloads the FakeClient holds
ThemeDiscoveryPayloads ==
  {helper.data[k].message :
     k \in {n \in 1..Len(helper.data) :
              helper.data[n].has /\ helper.data[n].path[1] = <<"homeassistant">>}}

\* Every topic a discovery payload points to has the theme's data, and
\* cleanUpSensors (its publishes are helper.messages) zeroes topics that
\* have the theme's data
SamePrefix ==
  /\ \A payload \in ThemeDiscoveryPayloads :
       \A topic \in NamedTopics(payload) : Split(topic) \in DataTopics
  /\ \A k \in 1..Len(helper.messages) : Split(helper.messages[k].topic) \in DataTopics

\* publishThemeData, publishThemeSensorConfig and cleanUpSensors have run
\* for a cache of n themes
ThemesDone(n) ==
  helper.fn = "themes" /\ Len(helper.themes) = n /\ helper.times = 3

\* C33: one topic prefix per theme: for every theme id, also one with "/",
\* publishThemeData publishes under the prefix that the state and url
\* topics of the theme's discovery payloads and the topics zeroed by
\* cleanUpSensors have, so every topic a discovery payload points to
\* receives the theme's data.
C33_OnePrefix == ThemesDone(1) => SamePrefix

\* C33 for the theme ids without "/"
C33_PlainIds ==
  ThemesDone(1) /\ cleanThemeName(helper.themes[1].id) = helper.themes[1].id => SamePrefix
C33_PlainReached ==
  /\ ThemesDone(1) /\ helper.themes[1].id = <<"cyclofix">>
  /\ Cardinality(ThemeDiscoveryPayloads) = 8
  /\ Split(ThemeTopic(<<"cyclofix">>) \o <<"/", "icon">>) \in DataTopics

\* The value of identifiers, an array of one string, in the device of a payload
DeviceIdentifier(payload) ==
  LET at == CHOOSE k \in 2..Len(payload) - 5 :
              /\ payload[k] = "identifiers" /\ payload[k - 1] = "\"" /\ payload[k + 1] = "\""
              /\ payload[k + 2] = ":" /\ payload[k + 3] = "[" /\ payload[k + 4] = "\""
      end == CHOOSE e \in (at + 5)..Len(payload) :
               payload[e] = "\"" /\ \A m \in (at + 5)..(e - 1) : payload[m] # "\""
  IN SubSeq(payload, at + 5, end - 1)

\* publishThemeSensorConfig has just published the discovery payloads of
\* two themes (its publishes are helper.messages)
TwoDiscovered ==
  helper.fn = "themes" /\ Len(helper.themes) = 2 /\ helper.times = 2 /\ ~helper.calling

\* The discovery messages of the theme with the id
DiscoveryOf(id) ==
  LET themeId == cleanThemeName(id)
  IN {m \in 1..Len(helper.messages) :
        \E k \in 1..Len(helper.themes) :
          helper.themes[k].id = id /\ m \in (8 * (k - 1) + 1)..(8 * k)}

\* No config topic, unique_id or device identifier of one theme is one of the other
DistinctDiscovery ==
  \A m \in DiscoveryOf(helper.themes[1].id) : \A n \in DiscoveryOf(helper.themes[2].id) :
    /\ helper.messages[m].topic # helper.messages[n].topic
    /\ StringValue(helper.messages[m].payload, "unique_id")
         # StringValue(helper.messages[n].payload, "unique_id")
    /\ DeviceIdentifier(helper.messages[m].payload) # DeviceIdentifier(helper.messages[n].payload)

\* C34: discovery identifiers are unique per theme: two distinct theme ids
\* of the cache never have the same discovery config topic, the same
\* unique_id or the same device identifier, so the discovery payloads of one
\* theme do not overwrite those of another.
C34_UniquePerTheme ==
  TwoDiscovered
    => /\ DistinctDiscovery
       /\ Cardinality(ThemeDiscoveryPayloads) = Len(helper.messages)

\* C34 for the theme ids that cleanThemeName maps to different names
C34_DistinctCleanNames ==
  TwoDiscovered /\ cleanThemeName(helper.themes[1].id) # cleanThemeName(helper.themes[2].id)
    => /\ DistinctDiscovery
       /\ Cardinality(ThemeDiscoveryPayloads) = Len(helper.messages)

\* Invocation i comes to the end of its try block in this step: the last
\* publish of publishThemeData or publishThemeSensorConfig is over and line
\* 176 is reached
TryCompletes(i) ==
  /\ ThemeDataPublished(i, TRUE) \/ SensorPublished(i, TRUE)
  /\ inv'[i].pc \in {"idle", "cleanup"}

\* Every theme of a changeset in the set is cached and published
AllDiscovered(changesets, themes) ==
  \A c \in 1..Len(changesets) :
    \E k \in 1..Len(themes) : themes[k].id = changesets[c].theme /\ themes[k].published

\* C35: every theme gets discovered: at the end of every update cycle whose
\* try block completes without an exception, every theme id of the day's
\* changeset set is in the theme cache with published = true.
C35_EveryThemeDiscovered ==
  [][\A i \in Slots :
       TryCompletes(i) => AllDiscovered(mapCompleteChangesets', mapCompleteThemes')]_vars

\* C36: since-timestamp clamp: in every cycle the since-timestamp sent
\* upstream is the later of lastUpdateTime minus ten minutes and the start of
\* the current UTC day: never earlier than the start of the day and never
\* later than lastUpdateTime.
C36_SinceClamp ==
  [][\A i \in Slots :
       StartOf(i)
         => LET start == SetHours0(now)
                back == lastUpdateTime' - TenMinutes
            IN /\ inv'[i].since = IF back > start THEN back ELSE start
               /\ inv'[i].since >= start
               /\ inv'[i].since <= lastUpdateTime']_vars

\* C36 for the cycles that start on the calendar day of lastUpdateTime or
\* roll over
C36_ClampOnTheDay ==
  [][\A i \in Slots :
       StartOf(i) /\ Day(lastUpdateTime') = Day(now)
         => LET start == SetHours0(now)
                back == lastUpdateTime' - TenMinutes
            IN /\ inv'[i].since = IF back > start THEN back ELSE start
               /\ inv'[i].since >= start
               /\ inv'[i].since <= lastUpdateTime']_vars
\* the first cycle on a host west of UTC: lastUpdateTime is the local
\* midnight, after the start of the UTC day
C36_LocalMidnightReached ==
  \E i \in Slots : inv[i].pc = "fetch" /\ lastUpdateTime > SetHours0(now) /\ started = 1

\* The keys of the static lookup table
InTable(theme) == Len(theme) = 1 /\ theme[1] \in DOMAIN themeColors

\* The themes the step has put in the cache
NewThemes ==
  { mapCompleteThemes'[k] : k \in {n \in 1..Len(mapCompleteThemes') :
                                     FindTheme(mapCompleteThemes, mapCompleteThemes'[n].id) = 0} }

\* The colour the claim gives a theme that is not in the table
SampledOrDefault(sample) ==
  IF sample.ok /\ ~sample.isDark THEN sample.hex ELSE DefaultColor

\* The theme got its colour from the icon the step has sampled
ColourFromIcon(t) ==
  \E i \in Slots : \E sample \in IconSamples :
    /\ IconReturn(i, sample)
    /\ inv[i].cur.theme = t.id
    /\ t.color = SampledOrDefault(sample)

\* C37: colour choice: a theme whose id is in the static lookup table gets
\* the table's colour and no icon image is fetched for it; any other theme
\* whose definition was obtained gets the sampled average colour of its
\* icon, or the default colour #70c549 when that colour is dark or the
\* sampling fails.
C37_ColourChoice ==
  [][/\ \A i \in Slots : inv'[i].pc = "icon" => ~InTable(inv'[i].cur.theme)
     /\ \A t \in NewThemes :
          IF InTable(t.id) THEN t.color = themeColors[t.id[1]] ELSE ColourFromIcon(t)]_vars

\* C37 for the theme ids that are no names of Object.prototype
C37_PlainIds ==
  [][/\ \A i \in Slots : inv'[i].pc = "icon" => ~InTable(inv'[i].cur.theme)
     /\ \A t \in NewThemes :
          t.id[1] \notin ObjectPrototypeNames
            => IF InTable(t.id) THEN t.color = themeColors[t.id[1]] ELSE ColourFromIcon(t)]_vars

\* A theme of the table, a sampled theme and a theme with a dark or failed
\* icon are resolved
C37_TableReached ==
  \E k \in 1..Len(mapCompleteThemes) :
    mapCompleteThemes[k].id = <<"cyclofix">> /\ mapCompleteThemes[k].color = themeColors.cyclofix
C37_SampledReached ==
  \E k \in 1..Len(mapCompleteThemes) :
    ~InTable(mapCompleteThemes[k].id) /\ mapCompleteThemes[k].color = 14737632
C37_DefaultReached ==
  \E k \in 1..Len(mapCompleteThemes) :
    ~InTable(mapCompleteThemes[k].id) /\ mapCompleteThemes[k].color = DefaultColor

====
